---- MODULE Spec2Model ----
(***************************************************************************)
(* XPII CHAIN: the governance stack (AgentIdentity, AuditLog, PolicyEngine, *)
(* OperatorControl; core/governance.py) and the Unpack-Edit-Pack stapler    *)
(* (core/stapler.py), with the caller of ui/app.py.                         *)
(*                                                                         *)
(* Python objects live in heaps: a reference is an index into the heap of  *)
(* its type, so two holders of the same reference see each other's writes. *)
(* json.dumps is a sequence of tokens, and SHA-256 is collision free: the  *)
(* digest of a token sequence is that sequence between two digest marks.   *)
(***************************************************************************)
EXTENDS Integers, Sequences, FiniteSets, TLC

\* ------------------------------------------------------------------ bounds

\* The longest audit log explored.
MaxEntries == 3
\* The most objects a caller allocates of its own (context dicts).
MaxCallerDicts == 1
\* The longest audit log explored beside the stapler.
MaxGoverned == 2
\* The threads that call the audit log at the same time.
MaxThreads == 2
\* The longest audit log explored with every context and registry.
MaxEvaluated == 1
\* The most pack calls explored with every path, session id and file order.
MaxPacks == 1
\* The most inject_metadata calls explored on one work_dir.
MaxInjects == 2
\* The last second of the clock the stapler reads.
MaxNow == 4

\* ------------------------------------------------------------ value domains

\* Action labels a caller passes to AuditLog.record.
RecordActions == {"unpack"}
\* Outcomes a caller passes to AuditLog.record.
RecordOutcomes == {"OK", "FAIL"}
\* Values a caller stores under the key "note" of a context dict.
Notes == {"n1"}
\* Reasons an operator gives to halt and resume.
Reasons == {"stop"}
\* uuid4 seeds an identity is created from.
Seeds == {"seed1"}
\* The agent's name (create_governance_stack's default).
AgentName == "XPII-STAPLER"
AGENT_PREFIX == "AGENT"

\* ------------------------------------------------------------ serialisation

\* str(n) for the integers of this model.
NatTok(n) == <<"0", "1", "2", "3", "4", "5", "6", "7", "8", "9">>[n + 1]

\* hashlib.sha256(bytes).hexdigest(): collision free, and no string of the
\* program is a digest.
SHA256(tokens) == <<"sha256(">> \o tokens \o <<")">>

\* AuditLog's sentinel for the first entry's prev_hash.
GENESIS == <<"GENESIS">>

\* A JSON value that is a str, an int, or a reference to a list object.
JStr(s) == [t |-> "str", s |-> s, n |-> 0]
JInt(n) == [t |-> "int", s |-> "", n |-> n]
JList(ref) == [t |-> "list", s |-> "", n |-> ref]

\* The empty dict {}.
EmptyDict == [k \in {} |-> JStr("")]

\* A value json.dumps has no encoding for (an object, a set, bytes), a dict
\* that holds one, and whether json.dumps of a dict returns: it raises
\* TypeError on such a value.
JObject == [t |-> "object", s |-> "", n |-> 0]
ObjectDict == [k \in {"note"} |-> JObject]
Serializable(d) == \A k \in DOMAIN d : d[k].t # "object"

\* The keys context dicts use, in sort_keys order.
SortedKeys == <<"failures", "note", "policy_count", "reason">>

\* json.dumps of a list of failure strings "[POLICY:<name>] <reason>"; a
\* failure is [policy, reason], the reason a token sequence.
RECURSIVE DumpsList(_)
DumpsList(items) ==
    IF items = <<>> THEN <<>>
    ELSE <<"str", "[POLICY:", Head(items).policy, "]">> \o Head(items).reason
         \o <<",">> \o DumpsList(Tail(items))

\* json.dumps of one value; lh is the heap of list objects.
DumpsVal(v, lh) ==
    CASE v.t = "str" -> <<"str", v.s>>
      [] v.t = "int" -> <<"int", NatTok(v.n)>>
      [] v.t = "list" -> <<"[">> \o DumpsList(lh[v.n]) \o <<"]">>

\* json.dumps(d, sort_keys=True) of a dict: its keys in sorted order.
RECURSIVE DumpsKeys(_, _, _)
DumpsKeys(d, keys, lh) ==
    IF keys = <<>> THEN <<>>
    ELSE (IF Head(keys) \in DOMAIN d
          THEN <<Head(keys), ":">> \o DumpsVal(d[Head(keys)], lh)
          ELSE <<>>) \o DumpsKeys(d, Tail(keys), lh)

DumpsDict(d, lh) == <<"{">> \o DumpsKeys(d, SortedKeys, lh) \o <<"}">>

\* json.dumps(entry, sort_keys=True) of an entry without its entry_hash:
\* action, agent_id, context, outcome, prev_hash, seq, timestamp.
DumpsEntry(e, ch, lh) ==
    <<"{", "action", ":", "str", e.action,
      "agent_id", ":", "str">> \o e.agent_id
    \o <<"context", ":">> \o DumpsDict(ch[e.context], lh)
    \o <<"outcome", ":", "str", e.outcome, "prev_hash", ":">> \o e.prev_hash
    \o <<"seq", ":", "int", NatTok(e.seq),
         "timestamp", ":", "int", NatTok(e.timestamp), "}">>

\* The entry_hash record and verify_chain compute for an entry.
EntryHash(e, ch, lh) == SHA256(DumpsEntry(e, ch, lh))

\* ------------------------------------------------------------------- state

VARIABLES
    identity,     \* AgentIdentity: _name, _seed, _identity_hash, _revoked
    entries,      \* AuditLog._entries: a list of references to entry dicts
    chain_hash,   \* AuditLog._chain_hash
    clock,        \* datetime.now(timezone.utc): a clock that record reads
    entryHeap,    \* the entry dict objects, by reference
    ctxHeap,      \* the context dict objects, by reference
    listHeap,     \* the list objects (failure lists), by reference
    policies,     \* PolicyEngine._policies: insertion-ordered name -> policy
    halted,       \* OperatorControl._halt_event.is_set()
    held,         \* the references the caller holds from earlier calls
    call,         \* the call that returned last, and how
    lastSwitch,   \* the most recent of the halt and resume calls
    lock,         \* AuditLog._lock: 0 when free, else the thread holding it
    pc,           \* where each thread is in its call
    tlocal,       \* each thread's call: its arguments and local variables
    snapshots,    \* the lists export has returned to the threads
    standing,     \* whether a halt call has returned whose set no clear followed,
                  \* and whether one has returned with no resume call then or since
    st,           \* XPIIStapler: work_dir on disk, _source_hash, and the files
    stret,        \* what the last stapler call returned or raised
    history       \* the stapler calls so far: what the properties refer to

govVars == <<identity, entries, chain_hash, clock, entryHeap, ctxHeap,
             listHeap, policies, halted, held, call, lastSwitch>>
thrVars == <<lock, pc, tlocal, snapshots, standing>>
\* What the calls of one thread on the governance objects leave alone.
stVars == <<st, stret, history>>
extVars == <<thrVars, stVars>>

\* ---------------------------------------------------------------- identity

\* AgentIdentity.__init__'s and verify's hash of prefix:name:seed.
IdentityHash(name, seed) == SHA256(<<AGENT_PREFIX, ":", name, ":", seed>>)

\* AgentIdentity.identity_id: "AGENT:" and the first 16 hex characters.
identity_id(id) == <<AGENT_PREFIX, ":", "hex16(">> \o id.identity_hash \o <<")">>

IdentityVerifyIgnoresRevoked(id) ==
    id.identity_hash = IdentityHash(id.name, id.seed)

\* AgentIdentity.verify.
IdentityVerify(id) ==
    IF id.revoked THEN FALSE
    ELSE id.identity_hash = IdentityHash(id.name, id.seed)

\* AgentIdentity.__init__.
NewIdentity(name, seed) ==
    [name |-> name, seed |-> seed,
     identity_hash |-> IdentityHash(name, seed), revoked |-> FALSE]

\* ---------------------------------------------------------------- AuditLog

NewEntryUnchained(action, ctxRef, outcome) ==
    [seq |-> Len(entries),
     timestamp |-> clock,
     agent_id |-> identity_id(identity),
     action |-> action,
     context |-> ctxRef,
     outcome |-> outcome,
     prev_hash |-> GENESIS,
     entry_hash |-> <<>>]

\* The entry dict record builds, before its entry_hash is set.
NewEntry(action, ctxRef, outcome) ==
    [seq |-> Len(entries),
     timestamp |-> clock,
     agent_id |-> identity_id(identity),
     action |-> action,
     context |-> ctxRef,
     outcome |-> outcome,
     prev_hash |-> chain_hash,
     entry_hash |-> <<>>]

RECURSIVE VerifyFromLinksOnly(_, _, _, _, _)
VerifyFromLinksOnly(ents, prev, eh, ch, lh) ==
    IF ents = <<>> THEN TRUE
    ELSE LET entry == eh[Head(ents)]
         IN IF entry.prev_hash # prev THEN FALSE
            ELSE VerifyFromLinksOnly(Tail(ents), entry.entry_hash, eh, ch, lh)

\* AuditLog.verify_chain over a list of entry references and the heaps.
RECURSIVE VerifyFrom(_, _, _, _, _)
VerifyFrom(ents, prev, eh, ch, lh) ==
    IF ents = <<>> THEN TRUE
    ELSE LET entry == eh[Head(ents)]
             computed == EntryHash(entry, ch, lh)
         IN IF computed # entry.entry_hash THEN FALSE
            ELSE IF entry.prev_hash # prev THEN FALSE
            ELSE VerifyFrom(Tail(ents), entry.entry_hash, eh, ch, lh)

VerifyChainOn(ents, eh, ch, lh) == VerifyFrom(ents, GENESIS, eh, ch, lh)

\* verify_chain() in the current state.
VerifyChain == VerifyChainOn(entries, entryHeap, ctxHeap, listHeap)

\* The reference AuditLog.record returns: the entry dict it appended.
RecordReturn(entryRef) == entryRef

DoRecordChainStale(action, ctxRef, outcome, ch, lh) ==
    LET entry == NewEntry(action, ctxRef, outcome)
        hash == EntryHash(entry, ch, lh)
        ref == Len(entryHeap) + 1
    IN /\ entryHeap' = Append(entryHeap, [entry EXCEPT !.entry_hash = hash])
       /\ chain_hash' = chain_hash
       /\ entries' = Append(entries, ref)
       /\ clock' = clock + 1

\* The body of AuditLog.record, given the context object `context or {}`
\* resolved to, in the heaps ch and lh as the caller left them.
DoRecord(action, ctxRef, outcome, ch, lh) ==
    LET entry == NewEntry(action, ctxRef, outcome)
        hash == EntryHash(entry, ch, lh)
        ref == Len(entryHeap) + 1
    IN /\ entryHeap' = Append(entryHeap, [entry EXCEPT !.entry_hash = hash])
       /\ chain_hash' = hash
       /\ entries' = Append(entries, ref)
       /\ clock' = clock + 1

\* The entry reference the record call of this step returned.
Appended == entries'[Len(entries')]

Returned(op) == [op |-> op, raised |-> FALSE, allowed |-> TRUE]
Raised(op) == [op |-> op, raised |-> TRUE, allowed |-> FALSE]

\* audit_log.record(action, None, outcome): context or {} is a new {}.
RecordNone(action, outcome) ==
    /\ Len(entries) < MaxEntries
    /\ ctxHeap' = Append(ctxHeap, EmptyDict)
    /\ DoRecord(action, Len(ctxHeap'), outcome, ctxHeap', listHeap)
    /\ held' = [held EXCEPT !.ret = RecordReturn(Appended)]
    /\ call' = Returned("record")
    /\ UNCHANGED <<extVars, identity, listHeap, policies, halted, lastSwitch>>

\* audit_log.record(action, d, outcome) with a dict d = {"note": note} the
\* caller has just built and keeps.
RecordFresh(action, note, outcome) ==
    /\ Len(entries) < MaxEntries
    /\ held.ndicts < MaxCallerDicts
    /\ ctxHeap' = Append(ctxHeap, [k \in {"note"} |-> JStr(note)])
    /\ DoRecord(action, Len(ctxHeap'), outcome, ctxHeap', listHeap)
    /\ held' = [held EXCEPT !.ret = RecordReturn(Appended),
                            !.ctx = Len(ctxHeap'),
                            !.ndicts = @ + 1]
    /\ call' = Returned("record")
    /\ UNCHANGED <<extVars, identity, listHeap, policies, halted, lastSwitch>>

\* audit_log.record(action, d, outcome) with the dict the caller holds from
\* an earlier call: context or {} is d itself unless d is empty.
RecordHeld(action, outcome) ==
    /\ Len(entries) < MaxEntries
    /\ held.ctx # 0
    /\ IF DOMAIN ctxHeap[held.ctx] = {}
       THEN ctxHeap' = Append(ctxHeap, EmptyDict)
       ELSE ctxHeap' = ctxHeap
    /\ DoRecord(action,
                IF DOMAIN ctxHeap[held.ctx] = {} THEN Len(ctxHeap') ELSE held.ctx,
                outcome, ctxHeap', listHeap)
    /\ held' = [held EXCEPT !.ret = RecordReturn(Appended)]
    /\ call' = Returned("record")
    /\ UNCHANGED <<extVars, identity, listHeap, policies, halted, lastSwitch>>

\* The list AuditLog.export returns: list(self._entries).
ExportReturn == entries

\* AuditLog.export.
Export ==
    /\ held' = [held EXCEPT !.exp = ExportReturn, !.hasExp = TRUE]
    /\ call' = Returned("export")
    /\ UNCHANGED <<extVars, identity, entries, chain_hash, clock, entryHeap, ctxHeap,
                   listHeap, policies, halted, lastSwitch>>

\* ------------------------------------------------------------ PolicyEngine

\* A context field that is not in the dict, and one that holds None.
ABSENT == "<absent>"
NONE == "<None>"

\* The author, identity and path fields callers put in an evaluate context.
Authors == {"Axiom", "", " ", ABSENT, NONE}
Identities == {"self", ABSENT}
Paths == {"in.docx", "out.docx", "../in.docx"}
\* The action names callers pass to evaluate.
EvalActions == {"staple"}

\* f"policy_evaluate:{action}".
EvalLabel(action) == CASE action = "staple" -> "policy_evaluate:staple"

\* str.strip().
Strip(str) == CASE str = " " -> "" [] OTHER -> str

\* ".." in path.
HasDotDot(path) == path \in {"../in.docx", "out/../x.docx"}

\* ctx.get(key, default).
Get(ctx, key, default) == IF ctx[key] = ABSENT THEN default ELSE ctx[key]

Allow(reason) == [raises |-> FALSE, allowed |-> TRUE, reason |-> reason]
Deny(reason) == [raises |-> FALSE, allowed |-> FALSE, reason |-> reason]
PolicyRaises == [raises |-> TRUE, allowed |-> FALSE, reason |-> <<>>]

\* PolicyEngine._policy_identity_must_be_valid; the one identity object a
\* context can carry is the session's.
policy_identity_must_be_valid(ctx) ==
    IF ctx.identity = ABSENT
    THEN Deny(<<"No agent identity present in context.">>)
    ELSE IF ~IdentityVerify(identity)
    THEN Deny(<<"Agent identity '">> \o identity_id(identity)
              \o <<"' is invalid or revoked.">>)
    ELSE Allow(<<"Identity verified.">>)

\* PolicyEngine._policy_no_empty_author: None has no strip().
policy_no_empty_author(ctx) ==
    IF Get(ctx, "author", "") = NONE THEN PolicyRaises
    ELSE IF Strip(Get(ctx, "author", "")) = ""
    THEN Deny(<<"Author field must not be empty.">>)
    ELSE Allow(<<"Author field present.">>)

\* PolicyEngine._policy_no_path_traversal: input_path first, then output_path;
\* `".." in path` raises TypeError when the field holds None.
policy_no_path_traversal(ctx) ==
    IF Get(ctx, "input_path", "") = NONE THEN PolicyRaises
    ELSE IF HasDotDot(Get(ctx, "input_path", ""))
    THEN Deny(<<"Path traversal detected in '", "input_path", "': ",
                Get(ctx, "input_path", ""), ".">>)
    ELSE IF Get(ctx, "output_path", "") = NONE THEN PolicyRaises
    ELSE IF HasDotDot(Get(ctx, "output_path", ""))
    THEN Deny(<<"Path traversal detected in '", "output_path", "': ",
                Get(ctx, "output_path", ""), ".">>)
    ELSE Allow(<<"No path traversal detected.">>)

\* Policies a caller registers: one that denies every context, one that
\* allows every context, one that raises.
policy_deny_all(ctx) == Deny(<<"Denied by the caller's policy.">>)
policy_allow_all(ctx) == Allow(<<"Allowed by the caller's policy.">>)
policy_raises(ctx) == PolicyRaises
CallerPolicies == {"deny_all", "allow_all", "raises"}
\* The names a caller registers under: a new one, and a built-in's.
RegisterNames == {"custom", "no_empty_author"}

\* policy_fn(ctx) for a registered policy.
ApplyPolicy(fn, ctx) ==
    CASE fn = "identity_must_be_valid" -> policy_identity_must_be_valid(ctx)
      [] fn = "no_empty_author" -> policy_no_empty_author(ctx)
      [] fn = "no_path_traversal" -> policy_no_path_traversal(ctx)
      [] fn = "deny_all" -> policy_deny_all(ctx)
      [] fn = "allow_all" -> policy_allow_all(ctx)
      [] fn = "raises" -> policy_raises(ctx)

\* PolicyEngine._register_builtin_policies.
BuiltinPolicies ==
    << [name |-> "identity_must_be_valid", fn |-> "identity_must_be_valid"],
       [name |-> "no_empty_author", fn |-> "no_empty_author"],
       [name |-> "no_path_traversal", fn |-> "no_path_traversal"] >>

\* The loop of evaluate over the policies: the failures collected.
RECURSIVE Failures(_, _)
Failures(pols, ctx) ==
    IF pols = <<>> THEN <<>>
    ELSE LET r == ApplyPolicy(Head(pols).fn, ctx)
         IN (IF r.allowed THEN <<>>
             ELSE << [policy |-> Head(pols).name, reason |-> r.reason] >>)
            \o Failures(Tail(pols), ctx)

\* Whether some policy raises in the loop of evaluate.
AnyRaises(pols, ctx) ==
    \E i \in 1..Len(pols) : ApplyPolicy(pols[i].fn, ctx).raises

\* PolicyEngine.evaluate(action, ctx): the failures list it returns is the
\* list object in the recorded context.
Evaluate(action, ctx) ==
    IF AnyRaises(policies, ctx)
    THEN /\ call' = Raised("evaluate")
         /\ UNCHANGED <<extVars, identity, entries, chain_hash, clock, entryHeap, ctxHeap,
                        listHeap, policies, halted, held, lastSwitch>>
    ELSE LET failures == Failures(policies, ctx)
             all_passed == Len(failures) = 0
         IN /\ Len(entries) < MaxEntries
            /\ listHeap' = Append(listHeap, failures)
            /\ ctxHeap' = Append(ctxHeap,
                  [k \in {"policy_count", "failures"} |->
                      IF k = "policy_count" THEN JInt(Len(policies))
                      ELSE JList(Len(listHeap'))])
            /\ DoRecord(EvalLabel(action), Len(ctxHeap'),
                        IF all_passed THEN "ALLOWED" ELSE "DENIED",
                        ctxHeap', listHeap')
            /\ held' = [held EXCEPT !.fails = Len(listHeap')]
            /\ call' = [op |-> "evaluate", raised |-> FALSE, allowed |-> all_passed]
            /\ UNCHANGED <<extVars, identity, policies, halted, lastSwitch>>

\* The position of a name in the registry, 0 when it is not there.
PolicyIndex(pols, name) ==
    IF \E i \in 1..Len(pols) : pols[i].name = name
    THEN CHOOSE i \in 1..Len(pols) : pols[i].name = name
    ELSE 0

RegisteredAppends(pols, name, fn) == Append(pols, [name |-> name, fn |-> fn])

\* self._policies[name] = policy_fn: a dict keeps a key it already has at its
\* place and puts a new key last.
Registered(pols, name, fn) ==
    IF PolicyIndex(pols, name) # 0
    THEN [pols EXCEPT ![PolicyIndex(pols, name)].fn = fn]
    ELSE Append(pols, [name |-> name, fn |-> fn])

\* PolicyEngine.register(name, policy_fn).
Register(name, fn) ==
    /\ policies' = Registered(policies, name, fn)
    /\ call' = Returned("register")
    /\ UNCHANGED <<extVars, identity, entries, chain_hash, clock, entryHeap, ctxHeap,
                   listHeap, halted, held, lastSwitch>>

\* AgentIdentity.revoke.
Revoke ==
    /\ identity' = [identity EXCEPT !.revoked = TRUE]
    /\ call' = Returned("revoke")
    /\ UNCHANGED <<extVars, entries, chain_hash, clock, entryHeap, ctxHeap, listHeap,
                   policies, halted, held, lastSwitch>>

\* --------------------------------------------------------- OperatorControl

\* What halt and resume leave in the flag (Event.set, Event.clear).
HaltFlagUnset == FALSE
HaltFlag == TRUE
ResumeFlagStuck == TRUE
ResumeFlag == FALSE

HaltOnceOnly(reason) ==
    /\ Len(entries) < MaxEntries
    /\ halted' = HaltFlag
    /\ IF halted
       THEN UNCHANGED <<ctxHeap, entryHeap, chain_hash, entries, clock>>
       ELSE /\ ctxHeap' = Append(ctxHeap, [k \in {"reason"} |-> JStr(reason)])
            /\ DoRecord("operator_halt", Len(ctxHeap'), "HALTED", ctxHeap', listHeap)
    /\ lastSwitch' = "halt"
    /\ call' = Returned("halt")
    /\ UNCHANGED <<extVars, identity, listHeap, policies, held>>

\* OperatorControl.halt(reason).
Halt(reason) ==
    /\ Len(entries) < MaxEntries
    /\ halted' = HaltFlag
    /\ ctxHeap' = Append(ctxHeap, [k \in {"reason"} |-> JStr(reason)])
    /\ DoRecord("operator_halt", Len(ctxHeap'), "HALTED", ctxHeap', listHeap)
    /\ lastSwitch' = "halt"
    /\ call' = Returned("halt")
    /\ UNCHANGED <<extVars, identity, listHeap, policies, held>>

\* OperatorControl.resume(reason).
Resume(reason) ==
    /\ Len(entries) < MaxEntries
    /\ halted' = ResumeFlag
    /\ ctxHeap' = Append(ctxHeap, [k \in {"reason"} |-> JStr(reason)])
    /\ DoRecord("operator_resume", Len(ctxHeap'), "RESUMED", ctxHeap', listHeap)
    /\ lastSwitch' = "resume"
    /\ call' = Returned("resume")
    /\ UNCHANGED <<extVars, identity, listHeap, policies, held>>

\* OperatorControl.assert_active: raises RuntimeError when the flag is set.
AssertActive ==
    /\ call' = (IF halted THEN Raised("assert_active") ELSE Returned("assert_active"))
    /\ UNCHANGED <<extVars, identity, entries, chain_hash, clock, entryHeap, ctxHeap,
                   listHeap, policies, halted, held, lastSwitch>>


\* ----------------------------------------------------------------- stapler

\* A text is a sequence of chunks and a chunk a sequence of characters kept
\* together: a delimiter such as " | " is a chunk, and so is a hex digest.
RECURSIVE Flatten(_)
Flatten(text) == IF text = <<>> THEN <<>> ELSE Head(text) \o Flatten(Tail(text))

\* An XML element that is not in the tree (find returns None).
NoElement == << <<"<no element>">> >>

XPII_HASH_KEY == <<"XPII-CHAIN-SHA256">>
XPII_SESSION_KEY == <<"XPII-CHAIN-PROVENANCE">>

\* The parts of an OOXML package this model knows.
CONTENT_TYPES == "[Content_Types].xml"
CORE == "docProps/core.xml"
SETTINGS == "word/settings.xml"
DOCUMENT == "word/document.xml"
PartNames == {CONTENT_TYPES, CORE, SETTINGS, DOCUMENT}

\* The directory of a part in the work tree ("" is work_dir itself).
DirOf(name) ==
    CASE name = CORE -> "docProps"
      [] name \in {SETTINGS, DOCUMENT} -> "word"
      [] OTHER -> ""

\* The second at which the input documents were written, and the second at
\* which the program starts: the documents are older than the run.
SourceTime == 0
StartTime == 3

\* A part: its root's dc:creator, dc:description and dcterms:modified texts
\* (core.xml), its w:rsids element and the w:val of the w:rsid children
\* (settings.xml), and whether its bytes are the source's or lxml's
\* serialisation; mtime is the time the file was last written in work_dir,
\* and for a member of an archive the time stored with it, both in the
\* two-second steps of an archive's date_time.
CorePart(creator, description, modified) ==
    [kind |-> "core", form |-> "source", creator |-> creator,
     description |-> description, modified |-> modified,
     has_rsids |-> FALSE, rsids |-> <<>>, mtime |-> SourceTime]
SettingsPart(has_rsids, rsids) ==
    [kind |-> "settings", form |-> "source", creator |-> NoElement,
     description |-> NoElement, modified |-> NoElement,
     has_rsids |-> has_rsids, rsids |-> rsids, mtime |-> SourceTime]
OtherPart(kind) ==
    [kind |-> kind, form |-> "source", creator |-> NoElement,
     description |-> NoElement, modified |-> NoElement,
     has_rsids |-> FALSE, rsids |-> <<>>, mtime |-> SourceTime]

\* A file on disk: a zip archive with its members in order, a file that is
\* no zip archive, or no file.
ZipFile(members) == [exists |-> TRUE, zip |-> TRUE, members |-> members]
JunkFile == [exists |-> TRUE, zip |-> FALSE, members |-> <<>>]
NoFile == [exists |-> FALSE, zip |-> FALSE, members |-> <<>>]

\* The bytes of a part.
PartBytes(part) ==
    <<part.kind, part.form, "creator">> \o Flatten(part.creator)
    \o <<"description">> \o Flatten(part.description)
    \o <<"modified">> \o Flatten(part.modified)
    \o <<IF part.has_rsids THEN "rsids" ELSE "no rsids">> \o Flatten(part.rsids)

\* The date_time zipfile stores with a member whose file was written at
\* the given second: in steps of two seconds, rounded down.
DosTime(now) == now - (now % 2)

\* The bytes of an archive's members: for each its name, its date_time and
\* its content.
RECURSIVE MemberBytes(_)
MemberBytes(members) ==
    IF members = <<>> THEN <<>>
    ELSE <<"member", Head(members).name, "date_time",
           NatTok(Head(members).part.mtime)>>
         \o PartBytes(Head(members).part)
         \o MemberBytes(Tail(members))

\* The bytes open(path, "rb") reads; a path without a file has none.
NoBytes == <<"<no file>">>
FileBytes(file) ==
    IF ~file.exists THEN NoBytes
    ELSE IF file.zip THEN <<"PK">> \o MemberBytes(file.members)
    ELSE <<"not a zip">>

\* The input documents: one with every part, its creator "Old", no
\* description and one revision marker; one without core.xml and
\* settings.xml; one that is no zip archive.
GoodDocx ==
    ZipFile(<< [name |-> CONTENT_TYPES, part |-> OtherPart("types")],
               [name |-> CORE,
                part |-> CorePart(<< <<"Old">> >>, NoElement, << <<"2020-01-01T00:00:00Z">> >>)],
               [name |-> SETTINGS, part |-> SettingsPart(TRUE, << <<"00AB12CD">> >>)],
               [name |-> DOCUMENT, part |-> OtherPart("document")] >>)
BareDocx ==
    ZipFile(<< [name |-> CONTENT_TYPES, part |-> OtherPart("types")],
               [name |-> DOCUMENT, part |-> OtherPart("document")] >>)

\* Packages nobody stapled: one whose dc:description is a text without the
\* marker, one whose dc:description element is empty.
PlainDocx ==
    ZipFile(<< [name |-> CONTENT_TYPES, part |-> OtherPart("types")],
               [name |-> CORE,
                part |-> CorePart(<< <<"Old">> >>, << <<"A report.">> >>,
                                  << <<"2020-01-01T00:00:00Z">> >>)],
               [name |-> DOCUMENT, part |-> OtherPart("document")] >>)
EmptyDocx ==
    ZipFile(<< [name |-> CONTENT_TYPES, part |-> OtherPart("types")],
               [name |-> CORE,
                part |-> CorePart(<< <<"Old">> >>, <<>>, << <<"2020-01-01T00:00:00Z">> >>)],
               [name |-> DOCUMENT, part |-> OtherPart("document")] >>)

\* A package stapled in an earlier run with the session id of the
\* specification's example.
StapledDocx ==
    ZipFile(<< [name |-> CONTENT_TYPES, part |-> OtherPart("types")],
               [name |-> CORE,
                part |-> CorePart(<< <<"Axiom">> >>,
                                  <<XPII_SESSION_KEY, <<": ">>, <<"2026-XPII-001">>,
                                    <<" | ">>, XPII_HASH_KEY, <<": ">>,
                                    SHA256(<<"PK", "an earlier source">>)>>,
                                  << <<"2026-01-01T00:00:00Z">> >>)],
               [name |-> SETTINGS,
                part |-> SettingsPart(TRUE, << <<"00AB12CD">>,
                                               <<"RSID8(", "2026-XPII-001", ")">> >>)],
               [name |-> DOCUMENT, part |-> OtherPart("document")] >>)

InputPaths == {"good.docx", "bare.docx", "junk.docx", "missing.docx"}
OutputPaths == {"out.docx", "nodir/out.docx"}
DiskPaths == InputPaths \cup OutputPaths
UnstapledPaths == {"plain.docx", "empty.docx"}
StapledPaths == {"stapled.docx"}

\* open(path, "w") succeeds when the directory of the path exists.
Writable(path) == path # "nodir/out.docx"

InitialDisk ==
    [p \in DiskPaths \cup UnstapledPaths \cup StapledPaths |->
        CASE p = "good.docx" -> GoodDocx
          [] p = "stapled.docx" -> StapledDocx
          [] p = "bare.docx" -> BareDocx
          [] p = "plain.docx" -> PlainDocx
          [] p = "empty.docx" -> EmptyDocx
          [] p = "junk.docx" -> JunkFile
          [] OTHER -> NoFile]

\* self._source_hash = None.
NoHash == <<>>
NoFiles == [n \in {} |-> OtherPart("")]

\* XPIIStapler.__init__, and the disk and the clock it runs on: work_dir
\* does not exist.
NewStapler ==
    [exists |-> FALSE, files |-> NoFiles, source_hash |-> NoHash,
     disk |-> InitialDisk, now |-> StartTime]

\* What a stapler call gives back: the exception it raised ("" when it
\* returned), the hash it returned, the record verify returned, and the
\* message box the user interface showed ("" when none).
NoRecord == [raw |-> <<>>, pairs |-> <<>>, author |-> <<>>, modified |-> <<>>]
NoReturn == [op |-> "", raised |-> "", hash |-> <<>>, record |-> NoRecord,
             shown |-> ""]
Outcome(op, state, raised, hash, record) ==
    [st |-> state,
     ret |-> [op |-> op, raised |-> raised, hash |-> hash, record |-> record,
              shown |-> ""]]

\* open(docx_path, "rb") on a path without a file.
HashRaises == <<"raises FileNotFoundError">>

\* XPIIStapler.hash_file.
hash_file(disk, docx_path) ==
    IF ~disk[docx_path].exists THEN HashRaises
    ELSE SHA256(FileBytes(disk[docx_path]))

\* The seconds the clock can show at n places of a call, one after another,
\* when it showed `from` as the call began.
Schedules(from, n) ==
    {times \in [1..n -> from..MaxNow] : \A i \in 1..n - 1 : times[i] <= times[i + 1]}

\* The second the clock shows after the last of the given places.
EndOf(from, times) == IF times = <<>> THEN from ELSE times[Len(times)]

\* The files zip_ref.extractall leaves in work_dir: it writes the members
\* one after another, members[i] at the second times[i], a later member of
\* a name over an earlier one.
Written(members, times) ==
    [n \in {members[i].name : i \in 1..Len(members)} |->
        LET last == CHOOSE i \in 1..Len(members) :
                        /\ members[i].name = n
                        /\ \A j \in i + 1..Len(members) : members[j].name # n
        IN [members[last].part EXCEPT !.mtime = DosTime(times[last])]]

\* The parts of an archive by name, a later member of the same name
\* standing for an earlier one (zip_ref.extractall, zip_ref.open).
Extracted(members) ==
    [n \in {members[i].name : i \in 1..Len(members)} |->
        LET last == CHOOSE i \in 1..Len(members) :
                        /\ members[i].name = n
                        /\ \A j \in i + 1..Len(members) : members[j].name # n
        IN members[last].part]

\* The seconds at which an unpack call that begins now can write the
\* members of the file.
UnpackTimes(s, docx_path) == Schedules(s.now, Len(s.disk[docx_path].members))

unpackOverLeftovers(s, docx_path, times) ==
    LET made == [s EXCEPT !.exists = TRUE]
        hashed == [made EXCEPT !.source_hash = hash_file(s.disk, docx_path)]
        fresh == Written(s.disk[docx_path].members, times)
    IN IF ~s.disk[docx_path].exists
       THEN Outcome("unpack", made, "FileNotFoundError", <<>>, NoRecord)
       ELSE IF ~s.disk[docx_path].zip
       THEN Outcome("unpack", hashed, "BadZipFile", <<>>, NoRecord)
       ELSE Outcome("unpack",
                    [hashed EXCEPT !.files =
                        [n \in DOMAIN s.files \cup DOMAIN fresh |->
                            IF n \in DOMAIN fresh THEN fresh[n] ELSE s.files[n]],
                                   !.now = EndOf(s.now, times)],
                    "", hashed.source_hash, NoRecord)

\* XPIIStapler.unpack; extractall writes the members of the archive at the
\* seconds `times`.
unpack(s, docx_path, times) ==
    LET made == [s EXCEPT !.exists = TRUE, !.files = NoFiles]
        hashed == [made EXCEPT !.source_hash = hash_file(s.disk, docx_path)]
    IN IF ~s.disk[docx_path].exists
       THEN Outcome("unpack", made, "FileNotFoundError", <<>>, NoRecord)
       ELSE IF ~s.disk[docx_path].zip
       THEN Outcome("unpack", hashed, "BadZipFile", <<>>, NoRecord)
       ELSE Outcome("unpack",
                    [hashed EXCEPT !.files =
                                       Written(s.disk[docx_path].members, times),
                                   !.now = EndOf(s.now, times)],
                    "", hashed.source_hash, NoRecord)

\* datetime.now().strftime("%Y%m%d%H%M%S") and
\* datetime.now(timezone.utc).strftime("%Y-%m-%dT%H:%M:%SZ") with the clock
\* at the given second.
LocalNow(now) == << <<"YYYYMMDDHHMMSS", NatTok(now)>> >>
UtcNow(now) == << <<"YYYY-MM-DDTHH:MM:SS", NatTok(now), "Z">> >>

\* The dc:description inject_metadata writes.
Description(session_id, source_hash) ==
    <<XPII_SESSION_KEY, <<": ">>>> \o session_id
    \o << <<" | ">>, XPII_HASH_KEY, <<": ">>, source_hash >>

\* hashlib.sha256(session_id.encode()).hexdigest()[:8].upper().
Rsid(session_id) == <<"RSID8(">> \o Flatten(session_id) \o <<")">>

InjectCoreCreates(files, author, session_id, source_hash, read, written) ==
    [n \in DOMAIN files \cup {CORE} |->
        IF n = CORE
        THEN [CorePart(author, Description(session_id, source_hash), UtcNow(read))
                 EXCEPT !.form = "lxml", !.mtime = DosTime(written)]
        ELSE files[n]]

\* inject_metadata, step 1: docProps/core.xml; line 103 reads the clock at
\* the second `read`, and tree.write writes the file at the second `written`.
InjectCore(files, author, session_id, source_hash, read, written) ==
    IF CORE \in DOMAIN files
    THEN [files EXCEPT ![CORE] =
             [@ EXCEPT !.creator = author,
                       !.description = Description(session_id, source_hash),
                       !.modified = UtcNow(read),
                       !.form = "lxml",
                       !.mtime = DosTime(written)]]
    ELSE files

InjectRsidAlways(files, session_id, written) ==
    IF SETTINGS \in DOMAIN files
    THEN [files EXCEPT ![SETTINGS] =
             [@ EXCEPT !.has_rsids = TRUE,
                       !.rsids = Append(@, Rsid(session_id)),
                       !.form = "lxml",
                       !.mtime = DosTime(written)]]
    ELSE files

\* inject_metadata, step 2: the RSID in word/settings.xml, tree.write
\* writing the file at the second `written`.
InjectRsid(files, session_id, written) ==
    IF SETTINGS \in DOMAIN files
    THEN LET rsid_val == Rsid(session_id)
             existing == {files[SETTINGS].rsids[i] :
                             i \in 1..Len(files[SETTINGS].rsids)}
         IN [files EXCEPT ![SETTINGS] =
                [@ EXCEPT !.has_rsids = TRUE,
                          !.rsids = IF rsid_val \notin existing
                                    THEN Append(@, rsid_val) ELSE @,
                          !.form = "lxml",
                          !.mtime = DosTime(written)]]
    ELSE files

\* The seconds the clock can show in an inject_metadata call that begins
\* now: as line 103 reads it, as line 105 writes docProps/core.xml and as
\* line 134 writes word/settings.xml.
InjectTimes(s) == Schedules(s.now, 3)

\* The session id inject_metadata uses for the one it is given (line 70),
\* the clock at the given second.
UsedSession(session_id, now) == IF session_id = <<>> THEN LocalNow(now) ELSE session_id

\* XPIIStapler.inject_metadata; session_id <<>> is None or "". Line 70
\* reads the clock at s.now, line 103 at times[1]; docProps/core.xml is
\* written at times[2] and word/settings.xml at times[3].
inject_metadata(s, author, session_id, times) ==
    LET session == UsedSession(session_id, s.now)
        source_hash == IF s.source_hash = NoHash THEN <<"UNKNOWN">> ELSE s.source_hash
    IN Outcome("inject_metadata",
               [s EXCEPT !.files =
                   InjectRsid(InjectCore(s.files, author, session, source_hash,
                                         times[1], times[2]),
                              session, times[3]),
                         !.now = times[3]],
               "", source_hash, NoRecord)


\* The orders os.walk(work_dir) can list the files in: work_dir's own files
\* first, then one directory after another, the order inside a directory
\* and among the directories being the file system's.
WalkOrders(files) ==
    LET names == DOMAIN files
        n == Cardinality(names)
    IN {p \in [1..n -> names] :
          /\ \A i, j \in 1..n : i # j => p[i] # p[j]
          /\ \A i, j \in 1..n : (i < j /\ DirOf(p[j]) = "") => DirOf(p[i]) = ""
          /\ \A i, j, k \in 1..n :
                (i < j /\ j < k /\ DirOf(p[i]) = DirOf(p[k])) => DirOf(p[j]) = DirOf(p[i])}

\* XPIIStapler.pack, os.walk listing the files in the given order.
pack(s, output_path, order) ==
    IF ~Writable(output_path)
    THEN Outcome("pack", s, "FileNotFoundError", <<>>, NoRecord)
    ELSE IF ~s.exists
    THEN Outcome("pack", [s EXCEPT !.disk[output_path] = ZipFile(<<>>)],
                 "FileNotFoundError", <<>>, NoRecord)
    ELSE Outcome("pack",
                 [s EXCEPT !.disk[output_path] =
                               ZipFile([i \in 1..Len(order) |->
                                          [name |-> order[i], part |-> s.files[order[i]]]]),
                           !.exists = FALSE,
                           !.files = NoFiles],
                 "", <<>>, NoRecord)

\* The index of the first chunk of text equal to delim, 0 when there is none.
IndexOf(text, delim) ==
    IF \E i \in 1..Len(text) : text[i] = delim
    THEN CHOOSE i \in 1..Len(text) :
             text[i] = delim /\ \A j \in 1..i - 1 : text[j] # delim
    ELSE 0

\* str.split(delim).
RECURSIVE Split(_, _)
Split(text, delim) ==
    LET i == IndexOf(text, delim)
    IN IF i = 0 THEN <<text>>
       ELSE <<SubSeq(text, 1, i - 1)>> \o Split(SubSeq(text, i + 1, Len(text)), delim)

\* str.strip() of a text: the blanks at its two ends.
RECURSIVE StripText(_)
StripText(text) ==
    IF text # <<>> /\ Head(text) = <<" ">> THEN StripText(Tail(text))
    ELSE IF text # <<>> /\ text[Len(text)] = <<" ">>
    THEN StripText(SubSeq(text, 1, Len(text) - 1))
    ELSE text

\* verify's loop over raw.split(" | "): the key and value of every segment
\* that holds ": ".
RECURSIVE KeyValues(_)
KeyValues(segments) ==
    IF segments = <<>> THEN <<>>
    ELSE LET part == Head(segments)
             i == IndexOf(part, <<": ">>)
         IN (IF i = 0 THEN <<>>
             ELSE << [key |-> StripText(SubSeq(part, 1, i - 1)),
                      value |-> StripText(SubSeq(part, i + 1, Len(part)))] >>)
            \o KeyValues(Tail(segments))

verifyAnyDescription(s, stapled_docx_path) ==
    LET file == s.disk[stapled_docx_path]
        names == {file.members[i].name : i \in 1..Len(file.members)}
        root == Extracted(file.members)[CORE]
        raw == root.description
    IN IF ~file.exists THEN Outcome("verify", s, "FileNotFoundError", <<>>, NoRecord)
       ELSE IF ~file.zip THEN Outcome("verify", s, "BadZipFile", <<>>, NoRecord)
       ELSE IF CORE \notin names
       THEN Outcome("verify", s, "ValueError: No docProps/core.xml", <<>>, NoRecord)
       ELSE IF raw = NoElement \/ raw = <<>>
       THEN Outcome("verify", s, "ValueError: No XPII provenance marker", <<>>, NoRecord)
       ELSE Outcome("verify", s, "", <<>>,
                    [raw |-> raw,
                     pairs |-> KeyValues(Split(raw, <<" | ">>)),
                     author |-> IF root.creator = NoElement
                                THEN << <<"Unknown">> >> ELSE root.creator,
                     modified |-> IF root.modified = NoElement
                                  THEN << <<"Unknown">> >> ELSE root.modified])

\* XPIIStapler.verify.
verify(s, stapled_docx_path) ==
    LET file == s.disk[stapled_docx_path]
        names == {file.members[i].name : i \in 1..Len(file.members)}
        root == Extracted(file.members)[CORE]
        raw == root.description
    IN IF ~file.exists THEN Outcome("verify", s, "FileNotFoundError", <<>>, NoRecord)
       ELSE IF ~file.zip THEN Outcome("verify", s, "BadZipFile", <<>>, NoRecord)
       ELSE IF CORE \notin names
       THEN Outcome("verify", s, "ValueError: No docProps/core.xml", <<>>, NoRecord)
       ELSE IF raw = NoElement \/ raw = <<>>
       THEN Outcome("verify", s, "ValueError: No XPII provenance marker", <<>>, NoRecord)
       ELSE IF IndexOf(raw, XPII_SESSION_KEY) = 0
       THEN Outcome("verify", s, "ValueError: No XPII provenance marker", <<>>, NoRecord)
       ELSE Outcome("verify", s, "", <<>>,
                    [raw |-> raw,
                     pairs |-> KeyValues(Split(raw, <<" | ">>)),
                     author |-> IF root.creator = NoElement
                                THEN << <<"Unknown">> >> ELSE root.creator,
                     modified |-> IF root.modified = NoElement
                                  THEN << <<"Unknown">> >> ELSE root.modified])

\* The seconds the clock can show in a run_stapler call that begins now:
\* as unpack writes the members of the file, as inject_metadata begins
\* after it, and at the three places of inject_metadata.
RunTimes(s, selected_file) ==
    {times \in [unpack : UnpackTimes(s, selected_file), began : s.now..MaxNow,
                inject : Schedules(s.now, 3)] :
        /\ EndOf(s.now, times.unpack) <= times.began
        /\ times.began <= times.inject[1]}

\* The state in which the inject_metadata call of run_stapler begins.
Began(u, times) == [u.st EXCEPT !.now = times.began]

\* XPIIApp.run_stapler with a file selected and an output path chosen:
\* unpack, inject_metadata, pack, the first exception ending the three;
\* `except Exception` catches it and shows it, and the call returns None.
run_stapler(s, selected_file, output_path, author, session, order, times) ==
    LET u == unpack(s, selected_file, times.unpack)
        i == inject_metadata(Began(u, times), author, session, times.inject)
        p == pack(i.st, output_path, order)
        ended == IF u.ret.raised # "" THEN u ELSE p
    IN [ended EXCEPT !.ret.op = "run_stapler",
                     !.ret.raised = "",
                     !.ret.shown = IF ended.ret.raised # ""
                                   THEN "showerror: " \o ended.ret.raised
                                   ELSE "showinfo"]

\* The authors and session ids the callers of the stapler pass.
StaplerAuthors == { << <<"Axiom">> >> }
StaplerSessions == { <<>>, << <<"2026-XPII-001">> >> }

\* The calls so far, as far as the properties of the stapler need them:
\* how far an unpack, inject_metadata, pack, verify sequence has come (stage
\* 0 to 4) with its input bytes, author, session id and output path; the
\* bytes of the package whose parts are in work_dir (<<>> when none are);
\* the session id the last inject_metadata call used, how many such calls
\* in a row used the same one on the same work_dir (2 standing for two or
\* more), and the w:rsid values they found at first; whether the input holds docProps/core.xml; the pack
\* calls, and the inject_metadata calls since the last unpack, counted up to
\* MaxPacks and MaxInjects; the parts work_dir held when the unpack call that
\* has just returned began.
NoHistory ==
    [stage |-> 0, input |-> <<>>, author |-> <<>>, session |-> <<>>, out |-> "",
     origin |-> <<>>, repeat |-> 0, found |-> <<>>, core |-> FALSE, packs |-> 0,
     injects |-> 0, left |-> {}, used |-> <<>>]

AfterUnpack(h, s, docx_path) ==
    IF s.disk[docx_path].exists /\ s.disk[docx_path].zip
    THEN [NoHistory EXCEPT !.stage = 1,
                           !.input = FileBytes(s.disk[docx_path]),
                           !.origin = FileBytes(s.disk[docx_path]),
                           !.core = CORE \in DOMAIN Extracted(s.disk[docx_path].members),
                           !.packs = h.packs,
                           !.left = DOMAIN s.files]
    ELSE [NoHistory EXCEPT !.packs = h.packs]

AfterInject(h, s, author, session_id) ==
    [h EXCEPT !.stage = IF h.stage = 1 THEN 2 ELSE 0,
              !.author = author,
              !.session = session_id,
              !.left = {},
              !.injects = IF @ < MaxInjects THEN @ + 1 ELSE @,
              !.used = UsedSession(session_id, s.now),
              !.repeat = IF h.repeat > 0 /\ h.used = UsedSession(session_id, s.now)
                         THEN 2 ELSE 1,
              !.found = IF h.repeat > 0 /\ h.used = UsedSession(session_id, s.now)
                        THEN h.found
                        ELSE IF SETTINGS \in DOMAIN s.files
                        THEN s.files[SETTINGS].rsids ELSE <<>>]

AfterPack(h, s, output_path, order) ==
    LET counted == [h EXCEPT !.packs = IF @ < MaxPacks THEN @ + 1 ELSE @,
                             !.left = {}]
    IN IF pack(s, output_path, order).ret.raised = ""
       THEN [counted EXCEPT !.stage = IF h.stage = 2 THEN 3 ELSE 0,
                            !.out = output_path, !.origin = <<>>,
                            !.repeat = 0, !.found = <<>>]
       ELSE [counted EXCEPT !.stage = 0]

AfterVerify(h, path) ==
    [h EXCEPT !.stage = IF h.stage = 3 /\ path = h.out THEN 4 ELSE 0,
              !.left = {}]

\* A stapler call as a step of the program.
StaplerStep(result, calls) ==
    /\ st' = result.st
    /\ stret' = result.ret
    /\ history' = calls
    /\ call' = [op |-> result.ret.op, raised |-> result.ret.raised # "",
                allowed |-> TRUE]
    /\ UNCHANGED <<thrVars, identity, entries, chain_hash, clock, entryHeap,
                   ctxHeap, listHeap, policies, halted, held, lastSwitch>>

\* XPIIStapler(): a new object on the same work_dir; _source_hash is None.
Construct ==
    /\ st.source_hash # NoHash
    /\ StaplerStep(Outcome("XPIIStapler", [st EXCEPT !.source_hash = NoHash],
                            "", <<>>, NoRecord),
                    [history EXCEPT !.stage = 0, !.repeat = 0, !.found = <<>>,
                                    !.left = {}])

Unpack(docx_path) ==
    /\ docx_path \in DOMAIN st.disk
    /\ \E times \in UnpackTimes(st, docx_path) :
           StaplerStep(unpack(st, docx_path, times),
                       AfterUnpack(history, st, docx_path))
InjectMetadata(author, session_id) ==
    /\ author \in StaplerAuthors
    /\ \E times \in InjectTimes(st) :
           StaplerStep(inject_metadata(st, author, session_id, times),
                       AfterInject(history, st, author, session_id))
Pack(output_path) ==
    \E order \in WalkOrders(st.files) :
        StaplerStep(pack(st, output_path, order),
                    AfterPack(history, st, output_path, order))
Verify(path) ==
    /\ path \in DOMAIN st.disk
    /\ StaplerStep(verify(st, path), AfterVerify(history, path))
RunStapler(selected_file, output_path, author, session) ==
    \E order \in WalkOrders(Extracted(st.disk[selected_file].members)),
       times \in RunTimes(st, selected_file) :
        LET u == unpack(st, selected_file, times.unpack)
            i == inject_metadata(Began(u, times), author, session, times.inject)
            hu == AfterUnpack(history, st, selected_file)
            hi == AfterInject(hu, Began(u, times), author, session)
        IN StaplerStep(run_stapler(st, selected_file, output_path, author, session,
                                   order, times),
                       IF u.ret.raised # "" THEN hu
                       ELSE AfterPack(hi, i.st, output_path, order))

\* The author main.py's XPIIApp.run_stapler passes to inject_metadata.
MainAuthor == << <<"XPII-CHAIN-USER">> >>

\* run_stapler of the XPIIApp of main.py: the same three calls in the same
\* try block, with that author and no session id.
RunStaplerMain(selected_file, output_path) ==
    RunStapler(selected_file, output_path, MainAuthor, <<>>)

\* A second passes between two calls.
Tick ==
    /\ st.now < MaxNow
    /\ st' = [st EXCEPT !.now = @ + 1]
    /\ UNCHANGED <<govVars, thrVars, stret, history>>

\* ------------------------------------------------------- the specification

Threads == 1..MaxThreads

\* No halt call has returned yet, and none is between its set and its return.
NoneStanding == [set |-> {}, returned |-> FALSE, quiet |-> FALSE]

\* A thread that is in no call; ctx is the context argument of a record
\* call: "none" for None, "object" for a dict json.dumps cannot serialise.
NoCall == [op |-> "none", action |-> "", outcome |-> "", ctx |-> "none",
           entry |-> [seq |-> 0, timestamp |-> 0, agent_id |-> <<>>, action |-> "",
                      context |-> 0, outcome |-> "", prev_hash |-> <<>>,
                      entry_hash |-> <<>>]]

vars == <<govVars, thrVars, stVars>>

\* create_governance_stack: a fresh identity, an empty log, the built-in
\* policies, the halt flag clear.
Init ==
    /\ identity \in {NewIdentity(AgentName, seed) : seed \in Seeds}
    /\ entries = <<>>
    /\ chain_hash = GENESIS
    /\ clock = 0
    /\ entryHeap = <<>>
    /\ ctxHeap = <<>>
    /\ listHeap = <<>>
    /\ policies = BuiltinPolicies
    /\ halted = FALSE
    /\ held = [ret |-> 0, exp |-> <<>>, hasExp |-> FALSE, ctx |-> 0,
               fails |-> 0, ndicts |-> 0]
    /\ call = Returned("create_governance_stack")
    /\ lastSwitch = "none"
    /\ lock = 0
    /\ pc = [t \in Threads |-> "idle"]
    /\ tlocal = [t \in Threads |-> NoCall]
    /\ snapshots = {}
    /\ standing = NoneStanding
    /\ st = NewStapler
    /\ stret = NoReturn
    /\ history = NoHistory

\* Every context of the model, and the ones the audit-log runs pass.
EvalContexts ==
    [identity : Identities, author : Authors, input_path : Paths,
     output_path : Paths]
LogContexts ==
    [identity : Identities, author : {"Axiom", " "}, input_path : {"in.docx"},
     output_path : {"out.docx"}]

\* The calls that reach the audit log and the kill-switch, one after another.
Next ==
    \/ \E a \in RecordActions, o \in RecordOutcomes : RecordNone(a, o)
    \/ \E a \in RecordActions, n \in Notes, o \in RecordOutcomes : RecordFresh(a, n, o)
    \/ \E a \in RecordActions, o \in RecordOutcomes : RecordHeld(a, o)
    \/ \E a \in EvalActions, ctx \in LogContexts : Evaluate(a, ctx)
    \/ \E r \in Reasons : Halt(r)
    \/ \E r \in Reasons : Resume(r)
    \/ AssertActive
    \/ Revoke

Spec == Init /\ [][Next]_vars

\* ------------------------------------------------------------- audit chain

\* The action labels in the log, in order.
LogActions == [i \in 1..Len(entries) |-> entryHeap[entries[i]].action]
HasAction(a) == \E i \in 1..Len(entries) : LogActions[i] = a

\* C1: after any sequence of record calls, made directly or through
\* evaluate, halt and resume, and on the empty log, verify_chain() is true.
C1_ChainVerifies == VerifyChain

\* A log of three entries that holds a direct record, an evaluation and a halt.
C1_Witness ==
    /\ Len(entries) >= 3
    /\ HasAction("unpack")
    /\ HasAction("policy_evaluate:staple")
    /\ HasAction("operator_halt")

\* Outcomes an outside writer may put in a stored entry.
TamperOutcomes == {"OK", "FAIL", "ALLOWED", "DENIED", "HALTED", "RESUMED", "EVIL"}

\* The entry heap with the outcome of the entry at ref overwritten.
WithOutcome(eh, ref, o) == [eh EXCEPT ![ref].outcome = o]

\* The entry heap with the entry_hash of the entry at ref recomputed from its fields.
Rehashed(eh, ref, ch, lh) ==
    [eh EXCEPT ![ref].entry_hash = EntryHash(eh[ref], ch, lh)]

\* A list without its k-th item.
RemoveAt(list, k) == SubSeq(list, 1, k - 1) \o SubSeq(list, k + 1, Len(list))

\* C2: changing the outcome of any stored entry k, the stored hashes left as
\* they are, makes verify_chain() false.
C2_OutcomeTamperDetected ==
    \A k \in 1..Len(entries) :
        \A o \in TamperOutcomes \ {entryHeap[entries[k]].outcome} :
            ~VerifyChainOn(entries, WithOutcome(entryHeap, entries[k], o),
                           ctxHeap, listHeap)

\* A log of at least two entries: the entry changed may be the last or an earlier one.
C2_Witness == Len(entries) >= 2 /\ VerifyChain

\* C3: for every entry k, the last included, altering a field of k and
\* rewriting k's own entry_hash to match, or removing k, makes
\* verify_chain() false.
C3_AnyMutationDetected ==
    \A k \in 1..Len(entries) :
        /\ \A o \in TamperOutcomes \ {entryHeap[entries[k]].outcome} :
               ~VerifyChainOn(entries,
                              Rehashed(WithOutcome(entryHeap, entries[k], o),
                                       entries[k], ctxHeap, listHeap),
                              ctxHeap, listHeap)
        /\ ~VerifyChainOn(RemoveAt(entries, k), entryHeap, ctxHeap, listHeap)

\* ------------------------------------------------------------- kill switch

\* C8: the flag is clear at first, and assert_active() raises exactly when
\* the most recent of the halt and resume calls was halt.
C8_BlockedIffLastWasHalt ==
    /\ halted <=> (lastSwitch = "halt")
    /\ call.op = "assert_active" => (call.raised <=> (lastSwitch = "halt"))

\* assert_active() has returned normally after a halt and a later resume.
C8_Witness ==
    /\ call.op = "assert_active"
    /\ ~call.raised
    /\ lastSwitch = "resume"
    /\ HasAction("operator_halt")

\* C9: when assert_active() raises because the flag is set, the call has
\* recorded an audit entry for the blocked operation.
C9_BlockedIsRecorded ==
    [][(AssertActive /\ halted) => Len(entries') > Len(entries)]_vars

\* ---------------------------------------------------------------- identity

\* C14: verify() is true for a fresh identity, revoke() makes it false, and
\* no operation makes verify() true again once it is false.
C14_RevokeIsOneWay ==
    /\ IdentityVerify(identity)
    /\ [][/\ Revoke => ~IdentityVerify(identity')
          /\ ~IdentityVerify(identity) => ~IdentityVerify(identity')]_vars

\* The identity has been revoked and calls that record, evaluate and switch
\* have followed: the log was empty at the revoke and holds three entries.
C14_Witness ==
    /\ identity.revoked
    /\ ~IdentityVerify(identity)
    /\ Len(entries) >= 3
    /\ \A i \in 1..Len(entries) :
          entryHeap[entries[i]].agent_id = identity_id(identity)
    /\ \E i \in 1..Len(entries) :
          /\ entryHeap[entries[i]].action = "policy_evaluate:staple"
          /\ entryHeap[entries[i]].outcome = "DENIED"
          /\ \E k \in 1..Len(listHeap[ctxHeap[entryHeap[entries[i]].context]["failures"].n]) :
                listHeap[ctxHeap[entryHeap[entries[i]].context]["failures"].n][k].policy
                    = "identity_must_be_valid"
                /\ Len(listHeap[ctxHeap[entryHeap[entries[i]].context]["failures"].n][k].reason) > 1
    /\ call.op \in {"record", "halt", "resume", "assert_active"}

\* ------------------------------------------------ the caller's references

\* What the log holds: each stored entry as json.dumps shows it, with its
\* entry_hash. It is what export() lets a reader see.
StoredView ==
    [i \in 1..Len(entries) |->
        [dump |-> DumpsEntry(entryHeap[entries[i]], ctxHeap, listHeap),
         entry_hash |-> entryHeap[entries[i]].entry_hash]]

\* The caller writes returned["outcome"] = o on the value record returned.
MutateReturned(o) ==
    /\ held.ret # 0
    /\ entryHeap[held.ret].outcome # o
    /\ entryHeap' = WithOutcome(entryHeap, held.ret, o)
    /\ UNCHANGED <<extVars, identity, entries, chain_hash, clock, ctxHeap, listHeap,
                   policies, halted, held, call, lastSwitch>>

\* The caller writes exported[i]["outcome"] = o on the list export returned.
MutateExportedEntry(i, o) ==
    /\ i \in 1..Len(held.exp)
    /\ entryHeap[held.exp[i]].outcome # o
    /\ entryHeap' = WithOutcome(entryHeap, held.exp[i], o)
    /\ UNCHANGED <<extVars, identity, entries, chain_hash, clock, ctxHeap, listHeap,
                   policies, halted, held, call, lastSwitch>>

\* The caller deletes the first item of the list export returned.
MutateExportedList ==
    /\ held.exp # <<>>
    /\ held' = [held EXCEPT !.exp = Tail(@)]
    /\ UNCHANGED <<extVars, identity, entries, chain_hash, clock, entryHeap, ctxHeap,
                   listHeap, policies, halted, call, lastSwitch>>

\* The caller writes d["note"] = note on the dict it passed to record.
MutateContext(note) ==
    /\ held.ctx # 0
    /\ ctxHeap[held.ctx] # [k \in {"note"} |-> JStr(note)]
    /\ ctxHeap' = [ctxHeap EXCEPT ![held.ctx] = [k \in {"note"} |-> JStr(note)]]
    /\ UNCHANGED <<extVars, identity, entries, chain_hash, clock, entryHeap, listHeap,
                   policies, halted, held, call, lastSwitch>>

\* The caller clears the failures list evaluate returned.
MutateFailures ==
    /\ held.fails # 0
    /\ listHeap[held.fails] # <<>>
    /\ listHeap' = [listHeap EXCEPT ![held.fails] = <<>>]
    /\ UNCHANGED <<extVars, identity, entries, chain_hash, clock, entryHeap, ctxHeap,
                   policies, halted, held, call, lastSwitch>>

\* The values the caller writes.
CallerOutcomes == {"EVIL"}
CallerNotes == {"n2"}

\* Calls on the audit log, and a caller that writes through what they returned.
NextCaller ==
    \/ \E a \in RecordActions, o \in RecordOutcomes : RecordNone(a, o)
    \/ \E a \in RecordActions, n \in Notes, o \in RecordOutcomes : RecordFresh(a, n, o)
    \/ \E a \in RecordActions, o \in RecordOutcomes : RecordHeld(a, o)
    \/ \E a \in EvalActions, ctx \in LogContexts : Evaluate(a, ctx)
    \/ Export
    \/ \E o \in CallerOutcomes : MutateReturned(o)
    \/ \E i \in 1..MaxEntries, o \in CallerOutcomes : MutateExportedEntry(i, o)
    \/ MutateExportedList
    \/ \E n \in CallerNotes : MutateContext(n)
    \/ MutateFailures

SpecCaller == Init /\ [][NextCaller]_vars

\* C4: record returns a copy: changing a field of the returned value changes
\* no stored entry, and verify_chain() and export() give what they gave before.
C4_ReturnedIsACopy ==
    [][(\E o \in CallerOutcomes : MutateReturned(o))
         => (StoredView' = StoredView /\ VerifyChain' = VerifyChain)]_vars

\* C5: after any modification of the list export returned, or of an entry in
\* it, the stored entries are unchanged and verify_chain() is still true.
C5_ExportIsASnapshot ==
    [][(\/ MutateExportedList
        \/ \E i \in 1..MaxEntries, o \in CallerOutcomes : MutateExportedEntry(i, o))
         => (StoredView' = StoredView /\ (VerifyChain => VerifyChain'))]_vars

\* C6: no object the caller still holds aliases a stored entry: writing to
\* the context dict passed to record, or to the failures list evaluate
\* returned, leaves the stored entry as it was and verify_chain() true.
C6_EntryOwnedByLog ==
    [][((\E n \in CallerNotes : MutateContext(n)) \/ MutateFailures)
         => (StoredView' = StoredView /\ (VerifyChain => VerifyChain'))]_vars

\* The two halves of C6, each on its own.
C6_ContextNotAliased ==
    [][(\E n \in CallerNotes : MutateContext(n)) => StoredView' = StoredView]_vars
C6_FailuresNotAliased ==
    [][MutateFailures => StoredView' = StoredView]_vars

\* -------------------------------------------------- threads on the AuditLog

\* `with self._lock` lets a thread in when no thread holds the lock.
LockIgnored == TRUE
LockFree == lock = 0

\* halt() and resume() called without a reason.
DefaultHaltReason == "Operator emergency stop"
DefaultResumeReason == "Operator resumed operations"

\* The record calls that have started and not yet appended.
Recording == {t \in Threads : tlocal[t].op = "record" /\ pc[t] # "release"}

\* A thread calls audit_log.record(action, None, outcome) and reaches the lock.
ThreadCallsRecord(t, action, outcome) ==
    /\ pc[t] = "idle"
    /\ Len(entries) + Cardinality(Recording) < MaxEntries
    /\ tlocal' = [tlocal EXCEPT ![t] = [NoCall EXCEPT !.op = "record",
                                                     !.action = action,
                                                     !.outcome = outcome]]
    /\ pc' = [pc EXCEPT ![t] = "acquire"]
    /\ UNCHANGED <<govVars, stVars, lock, snapshots, standing>>

\* A thread calls audit_log.record(action, {"note": <an object>}, outcome)
\* and reaches the lock.
ThreadCallsRecordObject(t, action, outcome) ==
    /\ pc[t] = "idle"
    /\ Len(ctxHeap) + Cardinality(Recording) < MaxEntries
    /\ tlocal' = [tlocal EXCEPT ![t] = [NoCall EXCEPT !.op = "record",
                                                     !.action = action,
                                                     !.outcome = outcome,
                                                     !.ctx = "object"]]
    /\ pc' = [pc EXCEPT ![t] = "acquire"]
    /\ UNCHANGED <<govVars, stVars, lock, snapshots, standing>>

\* A thread calls audit_log.export() and reaches the lock.
ThreadCallsExport(t) ==
    /\ pc[t] = "idle"
    /\ tlocal' = [tlocal EXCEPT ![t] = [NoCall EXCEPT !.op = "export"]]
    /\ pc' = [pc EXCEPT ![t] = "acquire"]
    /\ UNCHANGED <<govVars, stVars, lock, snapshots, standing>>

\* with self._lock: the thread enters.
Acquire(t) ==
    /\ pc[t] = "acquire"
    /\ LockFree
    /\ lock' = t
    /\ pc' = [pc EXCEPT ![t] = IF tlocal[t].op = "export" THEN "copy" ELSE "build"]
    /\ UNCHANGED <<govVars, stVars, tlocal, snapshots, standing>>

\* record: entry = {...}, reading len(self._entries), the clock and
\* self._chain_hash; context or {} is a new dict, the caller's dict, or
\* the {"reason": reason} of halt and resume.
ThreadBuild(t) ==
    /\ pc[t] = "build"
    /\ ctxHeap' = Append(ctxHeap,
                         CASE tlocal[t].ctx = "object" -> ObjectDict
                           [] tlocal[t].op = "halt" ->
                                  [k \in {"reason"} |-> JStr(DefaultHaltReason)]
                           [] tlocal[t].op = "resume" ->
                                  [k \in {"reason"} |-> JStr(DefaultResumeReason)]
                           [] OTHER -> EmptyDict)
    /\ tlocal' = [tlocal EXCEPT ![t].entry =
                      NewEntry(tlocal[t].action, Len(ctxHeap'), tlocal[t].outcome)]
    /\ clock' = clock + 1
    /\ pc' = [pc EXCEPT ![t] = "hash"]
    /\ UNCHANGED <<stVars, identity, entries, chain_hash, entryHeap, listHeap, policies,
                   halted, held, call, lastSwitch, lock, snapshots, standing>>

ThreadHashLeavesLocked(t) ==
    /\ pc[t] = "hash"
    /\ IF Serializable(ctxHeap[tlocal[t].entry.context])
       THEN /\ tlocal' = [tlocal EXCEPT ![t].entry.entry_hash =
                             EntryHash(tlocal[t].entry, ctxHeap, listHeap)]
            /\ pc' = [pc EXCEPT ![t] = "chain"]
       ELSE /\ tlocal' = [tlocal EXCEPT ![t] = NoCall]
            /\ pc' = [pc EXCEPT ![t] = "idle"]
    /\ UNCHANGED <<govVars, stVars, lock, snapshots, standing>>

\* record: entry["entry_hash"] = sha256(json.dumps(entry)); json.dumps
\* raising TypeError takes the call out of the with block.
ThreadHash(t) ==
    /\ pc[t] = "hash"
    /\ IF Serializable(ctxHeap[tlocal[t].entry.context])
       THEN /\ tlocal' = [tlocal EXCEPT ![t].entry.entry_hash =
                             EntryHash(tlocal[t].entry, ctxHeap, listHeap)]
            /\ pc' = [pc EXCEPT ![t] = "chain"]
       ELSE /\ tlocal' = tlocal
            /\ pc' = [pc EXCEPT ![t] = "release"]
    /\ UNCHANGED <<govVars, stVars, lock, snapshots, standing>>

\* record: self._chain_hash = entry["entry_hash"].
ThreadChain(t) ==
    /\ pc[t] = "chain"
    /\ chain_hash' = tlocal[t].entry.entry_hash
    /\ pc' = [pc EXCEPT ![t] = "append"]
    /\ UNCHANGED <<stVars, identity, entries, clock, entryHeap, ctxHeap, listHeap, policies,
                   halted, held, call, lastSwitch, lock, tlocal, snapshots, standing>>

ThreadAppendUnhashed(t) ==
    /\ pc[t] = "append"
    /\ entryHeap' = Append(entryHeap, [tlocal[t].entry EXCEPT !.entry_hash = <<>>])
    /\ entries' = Append(entries, Len(entryHeap'))
    /\ pc' = [pc EXCEPT ![t] = "release"]
    /\ UNCHANGED <<stVars, identity, chain_hash, clock, ctxHeap, listHeap, policies,
                   halted, held, call, lastSwitch, lock, tlocal, snapshots, standing>>

\* record: self._entries.append(entry).
ThreadAppend(t) ==
    /\ pc[t] = "append"
    /\ entryHeap' = Append(entryHeap, tlocal[t].entry)
    /\ entries' = Append(entries, Len(entryHeap'))
    /\ pc' = [pc EXCEPT ![t] = "release"]
    /\ UNCHANGED <<stVars, identity, chain_hash, clock, ctxHeap, listHeap, policies,
                   halted, held, call, lastSwitch, lock, tlocal, snapshots, standing>>

\* export: list(self._entries).
ThreadCopy(t) ==
    /\ pc[t] = "copy"
    /\ snapshots' = snapshots \cup {ExportReturn}
    /\ pc' = [pc EXCEPT ![t] = "release"]
    /\ UNCHANGED <<govVars, stVars, lock, tlocal, standing>>

\* The with block ends: the lock is released and record or export returns,
\* to the thread's caller or into the halt or resume call that made it.
Release(t) ==
    /\ pc[t] = "release"
    /\ lock' = 0
    /\ IF tlocal[t].op \in {"halt", "resume"}
       THEN /\ pc' = [pc EXCEPT ![t] = "return"]
            /\ tlocal' = tlocal
       ELSE /\ pc' = [pc EXCEPT ![t] = "idle"]
            /\ tlocal' = [tlocal EXCEPT ![t] = NoCall]
    /\ UNCHANGED <<govVars, stVars, snapshots, standing>>

\* Threads calling record and export at the same time, a statement at a time.
NextThreads ==
    \/ \E t \in Threads, a \in RecordActions, o \in RecordOutcomes :
           ThreadCallsRecord(t, a, o)
    \/ \E t \in Threads : ThreadCallsExport(t)
    \/ \E t \in Threads : Acquire(t)
    \/ \E t \in Threads : ThreadBuild(t)
    \/ \E t \in Threads : ThreadHash(t)
    \/ \E t \in Threads : ThreadChain(t)
    \/ \E t \in Threads : ThreadAppend(t)
    \/ \E t \in Threads : ThreadCopy(t)
    \/ \E t \in Threads : Release(t)

SpecThreads == Init /\ [][NextThreads]_vars

\* The threads inside the with block of record or export.
InLock == {t \in Threads : pc[t] \notin {"idle", "acquire"}}

IsPrefix(a, b) == Len(a) <= Len(b) /\ SubSeq(b, 1, Len(a)) = a

\* C7: concurrent record and export calls exclude each other: no two
\* entries share a seq and none is skipped, every list export returned is a
\* prefix of the log, and once the calls have returned the chain verifies.
C7_RecordExportExclusive ==
    /\ Cardinality(InLock) <= 1
    /\ \A i \in 1..Len(entries) : entryHeap[entries[i]].seq = i - 1
    /\ \A snap \in snapshots : IsPrefix(snap, entries)
    /\ (\A t \in Threads : pc[t] = "idle") => VerifyChain

\* Two entries are in the log, an export returned between them, and a thread
\* waits at the lock while another is about to leave it.
C7_Witness ==
    /\ Len(entries) >= 2
    /\ \E snap \in snapshots : Len(snap) = 1
    /\ \E t, u \in Threads : pc[t] = "release" /\ pc[u] = "acquire"

\* ---------------------------------------------------------------- pipeline

\* The contexts a governed pipeline call is evaluated with.
PipelineContexts ==
    [identity : {"self"}, author : {"Axiom", " "}, input_path : {"in.docx"},
     output_path : {"out.docx"}]
\* The documents, output paths and session ids of the pipeline runs.
PipelineInputs == {"plain.docx", "junk.docx"}
PipelineOutputs == {"out.docx"}
PipelineSessions == { << <<"2026-XPII-001">> >> }

\* The stapler, its caller in the user interface, and the governance stack
\* of the same session.
NextPipeline ==
    \/ \E r \in Reasons : Len(entries) < MaxGoverned /\ Halt(r)
    \/ \E r \in Reasons : Len(entries) < MaxGoverned /\ Resume(r)
    \/ AssertActive
    \/ \E a \in EvalActions, ctx \in PipelineContexts :
           Len(entries) < MaxGoverned /\ Evaluate(a, ctx)
    \/ \E path \in PipelineInputs : Unpack(path)
    \/ \E a \in StaplerAuthors, sid \in PipelineSessions : InjectMetadata(a, sid)
    \/ \E out \in PipelineOutputs : Pack(out)
    \/ \E path \in PipelineOutputs : Verify(path)
    \/ \E f \in PipelineInputs, out \in PipelineOutputs, a \in StaplerAuthors,
          sid \in PipelineSessions : RunStapler(f, out, a, sid)
    \/ Tick

SpecPipeline == Init /\ [][NextPipeline]_vars

PipelineOps == {"unpack", "inject_metadata", "pack", "verify", "run_stapler"}

\* C10: no pipeline phase starts while the kill-switch is set or without a
\* policy evaluation that allowed it: when a phase has run, the flag is
\* clear and the log holds an ALLOWED evaluation.
C10_PhasesAreGoverned ==
    call.op \in PipelineOps =>
        /\ ~halted
        /\ \E i \in 1..Len(entries) :
               /\ entryHeap[entries[i]].action = "policy_evaluate:staple"
               /\ entryHeap[entries[i]].outcome = "ALLOWED"

\* The two halves of C10, each on its own.
C10_NoPhaseWhileHalted == call.op \in PipelineOps => ~halted
C10_NoPhaseWithoutEvaluation ==
    call.op \in PipelineOps => HasAction("policy_evaluate:staple")

\* ------------------------------------------------------- policy evaluation

\* The contexts callers pass to evaluate: fields that are strings, that are
\* missing, and that hold None.
PolicyPaths == {"in.docx", "../in.docx", ABSENT, NONE}
PolicyContexts ==
    [identity : Identities, author : Authors, input_path : PolicyPaths,
     output_path : PolicyPaths]

\* The policy engine and the identity its contexts carry.
NextPolicy ==
    \/ \E a \in EvalActions, ctx \in PolicyContexts :
           Len(entries) < MaxEvaluated /\ Evaluate(a, ctx)
    \/ \E n \in RegisterNames, fn \in CallerPolicies : Register(n, fn)
    \/ Revoke

SpecPolicy == Init /\ [][NextPolicy]_vars

\* The entry a call has just appended, its context and its failure list.
LastEntry == entryHeap'[entries'[Len(entries')]]
LastContext == ctxHeap'[LastEntry.context]
LastFailures == listHeap'[LastContext["failures"].n]

\* C11: every evaluate(action, context) call, whatever the context holds and
\* whatever policies are registered, returns and has appended exactly one
\* entry "policy_evaluate:<action>" with the policy count and the failures,
\* its outcome ALLOWED when the call returned allowed and DENIED otherwise.
C11_EvaluateAlwaysRecords ==
    [][\A a \in EvalActions, ctx \in PolicyContexts :
          Evaluate(a, ctx) =>
             /\ ~call'.raised
             /\ Len(entries') = Len(entries) + 1
             /\ LastEntry.action = EvalLabel(a)
             /\ LastContext["policy_count"] = JInt(Len(policies))
             /\ LastEntry.outcome = (IF call'.allowed THEN "ALLOWED" ELSE "DENIED")]_vars

\* Whether a registered policy denies a context: it returns allowed = False.
Denies(pol, ctx) ==
    ~ApplyPolicy(pol.fn, ctx).raises /\ ~ApplyPolicy(pol.fn, ctx).allowed

\* The names of the failures in a list, in order.
FailureNames(failures) == [i \in 1..Len(failures) |-> failures[i].policy]

\* The names of the registered policies that deny a context, in insertion order.
DenyingNames(pols, ctx) ==
    LET denying == SelectSeq(pols, LAMBDA pol : Denies(pol, ctx))
    IN [i \in 1..Len(denying) |-> denying[i].name]

\* C12: evaluate runs every registered policy in insertion order and returns
\* allowed exactly when none denies; failures holds one "[POLICY:<name>]
\* <reason>" per denying policy in that order, later policies being run after
\* a denial.
C12_EveryPolicyInOrder ==
    [][\A a \in EvalActions, ctx \in PolicyContexts :
          Evaluate(a, ctx) =>
             /\ ~call'.raised
             /\ call'.allowed <=> (\A i \in 1..Len(policies) : ~Denies(policies[i], ctx))
             /\ FailureNames(LastFailures) = DenyingNames(policies, ctx)
             /\ \A i \in 1..Len(LastFailures) :
                   \E j \in 1..Len(policies) :
                       /\ policies[j].name = LastFailures[i].policy
                       /\ ApplyPolicy(policies[j].fn, ctx).reason = LastFailures[i].reason]_vars

\* Whether a built-in policy is in the registry under its own name.
BuiltinRegistered(name) ==
    \E i \in 1..Len(policies) : policies[i] = [name |-> name, fn |-> name]

\* C13: evaluate with an author that is empty, blank or absent returns
\* allowed = false with a failure naming no_empty_author, whatever the other
\* fields of the context are.
C13_EmptyAuthorDenied ==
    [][\A a \in EvalActions, ctx \in PolicyContexts :
          (/\ Evaluate(a, ctx)
           /\ BuiltinRegistered("no_empty_author")
           /\ ctx.author \in {"", " ", ABSENT}) =>
             /\ ~call'.raised
             /\ ~call'.allowed
             /\ \E i \in 1..Len(LastFailures) :
                   LastFailures[i].policy = "no_empty_author"]_vars

\* C15: with the built-in policies registered, evaluate returns allowed =
\* false whenever the context has no identity or its identity fails verify():
\* after revoke() every evaluate carrying the identity is recorded DENIED with
\* a failure naming identity_must_be_valid.
C15_InvalidIdentityDenied ==
    [][\A a \in EvalActions, ctx \in PolicyContexts :
          (/\ Evaluate(a, ctx)
           /\ BuiltinRegistered("identity_must_be_valid")
           /\ (ctx.identity = ABSENT \/ ~IdentityVerify(identity))) =>
             /\ ~call'.raised
             /\ ~call'.allowed
             /\ LastEntry.outcome = "DENIED"
             /\ \E i \in 1..Len(LastFailures) :
                   LastFailures[i].policy = "identity_must_be_valid"]_vars

\* ".." in the input_path or the output_path of a context.
Traverses(ctx) ==
    \/ ctx.input_path \notin {ABSENT, NONE} /\ HasDotDot(ctx.input_path)
    \/ ctx.output_path \notin {ABSENT, NONE} /\ HasDotDot(ctx.output_path)

\* C16: with the built-in policies registered, evaluate returns allowed =
\* false whenever input_path or output_path contains "..", and the
\* path-traversal policy does not deny when neither does, absent fields
\* included.
C16_PathTraversalDenied ==
    [][\A a \in EvalActions, ctx \in PolicyContexts :
          (Evaluate(a, ctx) /\ BuiltinRegistered("no_path_traversal")) =>
             /\ Traverses(ctx) =>
                   /\ ~call'.raised
                   /\ ~call'.allowed
                   /\ \E i \in 1..Len(LastFailures) :
                         LastFailures[i].policy = "no_path_traversal"
             /\ (~Traverses(ctx) /\ ~call'.raised) =>
                   \A i \in 1..Len(LastFailures) :
                       LastFailures[i].policy # "no_path_traversal"]_vars

\* What C12, C13, C15 and C16 say of the calls of evaluate that return.
EvaluateReturns(a, ctx) == Evaluate(a, ctx) /\ ~call'.raised
PolicyVerdictsWhenReturned ==
    [][\A a \in EvalActions, ctx \in PolicyContexts :
          EvaluateReturns(a, ctx) =>
             /\ call'.allowed <=> (\A i \in 1..Len(policies) : ~Denies(policies[i], ctx))
             /\ FailureNames(LastFailures) = DenyingNames(policies, ctx)
             /\ (BuiltinRegistered("no_empty_author") /\ ctx.author \in {"", " ", ABSENT})
                   => (~call'.allowed /\ \E i \in 1..Len(LastFailures) :
                                            LastFailures[i].policy = "no_empty_author")
             /\ (/\ BuiltinRegistered("identity_must_be_valid")
                 /\ (ctx.identity = ABSENT \/ ~IdentityVerify(identity)))
                   => (~call'.allowed /\ LastEntry.outcome = "DENIED")
             /\ (BuiltinRegistered("no_path_traversal") /\ Traverses(ctx))
                   => ~call'.allowed
             /\ (BuiltinRegistered("no_path_traversal") /\ ~Traverses(ctx))
                   => \A i \in 1..Len(LastFailures) :
                          LastFailures[i].policy # "no_path_traversal"]_vars

\* ----------------------------------------------------------------- stapler

\* The session ids the callers of the stapler pass here: the one of the
\* spec's example, and one that holds the text " | ".
TripSessions ==
    { << <<"2026-XPII-001">> >>, << <<"a">>, <<" | ">>, <<"b">> >> }

\* The files selected in the user interface, and the files verify is
\* called on.
RunInputs == {"good.docx", "missing.docx"}
VerifiedPaths == OutputPaths \cup {"good.docx"}

\* The stapler on its own: the calls of its methods in any order, on any
\* path, and a new XPIIStapler object on the same work_dir.
NextStapler ==
    \/ Construct
    \/ \E path \in DiskPaths : Unpack(path)
    \/ \E a \in StaplerAuthors, sid \in TripSessions :
           history.injects < MaxInjects /\ InjectMetadata(a, sid)
    \/ \E out \in OutputPaths : history.packs < MaxPacks /\ Pack(out)
    \/ \E path \in VerifiedPaths : Verify(path)
    \/ \E f \in RunInputs, out \in OutputPaths, a \in StaplerAuthors,
          sid \in TripSessions :
           history.packs < MaxPacks /\ RunStapler(f, out, a, sid)
    \/ history.packs < MaxPacks /\ RunStaplerMain("good.docx", "out.docx")
    \/ Tick

SpecStapler == Init /\ [][NextStapler]_vars

\* A key that is not in the dict verify returned.
NoValue == << <<"<no key>">> >>

\* result[key] for the dict verify returns: 'raw' first, then the pairs of
\* the description in order, then 'author' and 'modified', a later
\* assignment to a key replacing an earlier one.
RecordValue(record, key) ==
    LET hits == {i \in 1..Len(record.pairs) : record.pairs[i].key = key}
    IN IF key = << <<"author">> >> THEN record.author
       ELSE IF key = << <<"modified">> >> THEN record.modified
       ELSE IF hits # {}
       THEN record.pairs[CHOOSE i \in hits : \A j \in hits : j <= i].value
       ELSE IF key = << <<"raw">> >> THEN record.raw
       ELSE NoValue

\* C17: unpack of a valid package (a zip archive that holds
\* docProps/core.xml), inject_metadata(author=A, session_id=S) with a session
\* id given, pack and verify of the output yield a record whose author is A,
\* whose session id is S and whose fingerprint is the SHA-256 of the input
\* bytes.
C17_RoundTrip ==
    (history.stage = 4 /\ history.core /\ history.session # <<>>) =>
        /\ stret.raised = ""
        /\ RecordValue(stret.record, << <<"author">> >>) = history.author
        /\ RecordValue(stret.record, <<XPII_SESSION_KEY>>) = history.session
        /\ RecordValue(stret.record, <<XPII_HASH_KEY>>) = <<SHA256(history.input)>>

\* The round trip with a session id that holds none of verify's delimiters.
RoundTripPlainSession ==
    (history.stage = 4 /\ history.core /\ history.session = << <<"2026-XPII-001">> >>) =>
        /\ stret.raised = ""
        /\ RecordValue(stret.record, << <<"author">> >>) = history.author
        /\ RecordValue(stret.record, <<XPII_SESSION_KEY>>) = history.session
        /\ RecordValue(stret.record, <<XPII_HASH_KEY>>) = <<SHA256(history.input)>>

\* The fingerprint in the dc:description inject_metadata wrote: its last chunk.
Embedded(files) == files[CORE].description[Len(files[CORE].description)]

\* C18: the fingerprint inject_metadata returns, and embeds when core.xml is
\* there, is the SHA-256 of the bytes of the package whose parts are in the
\* workspace, as read at unpack: not a placeholder, not another package's hash.
C18_FingerprintIsSourceHash ==
    stret.op = "inject_metadata" =>
        /\ history.origin # <<>>
        /\ stret.hash = SHA256(history.origin)
        /\ CORE \in DOMAIN st.files => Embedded(st.files) = stret.hash

\* inject_metadata on the work_dir of a package that is unpacked, packed and
\* unpacked again: the calls that decide which w:rsid entries it finds.
InjectSessions == TripSessions \cup StaplerSessions
NextInject ==
    \/ \E path \in {"good.docx", "bare.docx", "out.docx"} : Unpack(path)
    \/ \E a \in StaplerAuthors, sid \in InjectSessions :
           history.injects < MaxInjects /\ InjectMetadata(a, sid)
    \/ history.packs < MaxPacks /\ Pack("out.docx")
    \/ Tick

SpecInject == Init /\ [][NextInject]_vars

\* How often a value is in a list.
Count(list, v) == Cardinality({i \in 1..Len(list) : list[i] = v})

\* C19: after one or more inject_metadata calls in a row with the same
\* session id, settings.xml holds the marker of that session id exactly
\* once: the w:rsid entries found before the first call are kept in place,
\* and one entry is added unless the marker was among them.
C19_OneMarkerPerSession ==
    (stret.op = "inject_metadata" /\ SETTINGS \in DOMAIN st.files) =>
        LET rsids == st.files[SETTINGS].rsids
            marker == Rsid(history.used)
        IN /\ Count(rsids, marker) = 1
           /\ SubSeq(rsids, 1, Len(history.found)) = history.found
           /\ Len(rsids) = Len(history.found)
                             + (IF Count(history.found, marker) > 0 THEN 0 ELSE 1)

\* inject_metadata has run twice in a row with the session id whose marker
\* the unpacked package held already, beside another entry.
C19_Witness ==
    /\ stret.op = "inject_metadata"
    /\ SETTINGS \in DOMAIN st.files
    /\ history.repeat = 2
    /\ Count(history.found, Rsid(history.used)) = 1
    /\ Len(history.found) >= 2

\* C20: after pack, whether it returned or raised, work_dir does not exist.
C20_WorkspaceGoneAfterPack ==
    stret.op = "pack" => ~st.exists

\* C21: the archive a pack call writes is fixed by the paths and contents of
\* the workspace: whatever order os.walk lists the files in, the members
\* are written in the same sequence and the output has the same bytes.
C21_PackOrderFixed ==
    [][(stret'.op = "pack" /\ stret'.raised = "") =>
          \A order \in WalkOrders(st.files) :
              FileBytes(pack(st, history'.out, order).st.disk[history'.out])
                  = FileBytes(st'.disk[history'.out])]_vars

\* verify on the packages of the disk, stapled or not, beside the calls that
\* staple one.
VerifyPaths == {"good.docx", "bare.docx", "plain.docx", "empty.docx", "out.docx"}
NextVerify ==
    \/ Unpack("good.docx")
    \/ \E a \in StaplerAuthors, sid \in PipelineSessions :
           history.injects < MaxInjects /\ InjectMetadata(a, sid)
    \/ history.packs < MaxPacks /\ Pack("out.docx")
    \/ \E path \in VerifyPaths : Verify(path)
    \/ Tick

SpecVerify == Init /\ [][NextVerify]_vars

NoMetadata == "ValueError: No docProps/core.xml"
NoProvenance == "ValueError: No XPII provenance marker"

\* The dc:description text of a package's docProps/core.xml.
DescriptionOf(file) == Extracted(file.members)[CORE].description
HasCore(file) == \E i \in 1..Len(file.members) : file.members[i].name = CORE
HasMarker(file) ==
    /\ HasCore(file)
    /\ DescriptionOf(file) # NoElement
    /\ IndexOf(DescriptionOf(file), XPII_SESSION_KEY) # 0

\* C22: verify of a package without docProps/core.xml fails with NoMetadata;
\* of one whose dc:description is absent, empty or without the marker token
\* fails with NoProvenance; it returns a record only when the marker is there.
C22_VerifyErrors ==
    [][\A path \in VerifyPaths :
          (Verify(path) /\ st.disk[path].zip) =>
              LET file == st.disk[path]
              IN /\ ~HasCore(file) => stret'.raised = NoMetadata
                 /\ (HasCore(file) /\ ~HasMarker(file)) => stret'.raised = NoProvenance
                 /\ stret'.raised = "" => HasMarker(file)
                 /\ HasMarker(file) => (stret'.raised = "" /\ stret'.record.raw = DescriptionOf(file))]_vars

\* verify has refused a package for its description while a stapled
\* output, which it accepts, is on the disk.
C22_Witness ==
    /\ stret.op = "verify"
    /\ stret.raised = NoProvenance
    /\ st.disk["out.docx"].zip
    /\ HasMarker(st.disk["out.docx"])

\* ------------------------------------------ threads on the OperatorControl

\* The halt and resume calls that have started and not yet returned, and
\* those of them that have not appended their entry yet.
Switching == {t \in Threads : tlocal[t].op \in {"halt", "resume"}}
Logging == {t \in Switching : pc[t] \notin {"release", "return"}}

\* A thread calls operator_control.halt().
ThreadCallsHalt(t) ==
    /\ pc[t] = "idle"
    /\ Len(entries) + Cardinality(Logging) < MaxEntries
    /\ tlocal' = [tlocal EXCEPT ![t] = [NoCall EXCEPT !.op = "halt",
                                                     !.action = "operator_halt",
                                                     !.outcome = "HALTED"]]
    /\ pc' = [pc EXCEPT ![t] = "set"]
    /\ UNCHANGED <<govVars, stVars, lock, snapshots, standing>>

\* A thread calls operator_control.resume().
ThreadCallsResume(t) ==
    /\ pc[t] = "idle"
    /\ Len(entries) + Cardinality(Logging) < MaxEntries
    /\ tlocal' = [tlocal EXCEPT ![t] = [NoCall EXCEPT !.op = "resume",
                                                     !.action = "operator_resume",
                                                     !.outcome = "RESUMED"]]
    /\ pc' = [pc EXCEPT ![t] = "clear"]
    /\ standing' = [standing EXCEPT !.quiet = FALSE]
    /\ UNCHANGED <<govVars, stVars, lock, snapshots>>

\* halt: self._halt_event.set().
ThreadSet(t) ==
    /\ pc[t] = "set"
    /\ halted' = HaltFlag
    /\ lastSwitch' = "halt"
    /\ standing' = [standing EXCEPT !.set = @ \cup {t}]
    /\ pc' = [pc EXCEPT ![t] = "acquire"]
    /\ UNCHANGED <<stVars, identity, entries, chain_hash, clock, entryHeap, ctxHeap,
                   listHeap, policies, held, call, lock, tlocal, snapshots>>

\* resume: self._halt_event.clear().
ThreadClear(t) ==
    /\ pc[t] = "clear"
    /\ halted' = ResumeFlag
    /\ lastSwitch' = "resume"
    /\ standing' = NoneStanding
    /\ pc' = [pc EXCEPT ![t] = "acquire"]
    /\ UNCHANGED <<stVars, identity, entries, chain_hash, clock, entryHeap, ctxHeap,
                   listHeap, policies, held, call, lock, tlocal, snapshots>>

\* halt and resume: self._audit_log.record(...) has returned, and the call
\* returns.
ThreadReturn(t) ==
    /\ pc[t] = "return"
    /\ standing' =
           LET left == IF t \in standing.set
                       THEN [standing EXCEPT !.set = @ \ {t}, !.returned = TRUE]
                       ELSE standing
           IN IF tlocal[t].op = "halt"
              THEN [left EXCEPT !.quiet =
                                   \A u \in Threads \ {t} : tlocal[u].op # "resume"]
              ELSE left
    /\ call' = Returned(tlocal[t].op)
    /\ pc' = [pc EXCEPT ![t] = "idle"]
    /\ tlocal' = [tlocal EXCEPT ![t] = NoCall]
    /\ UNCHANGED <<stVars, identity, entries, chain_hash, clock, entryHeap, ctxHeap,
                   listHeap, policies, halted, held, lastSwitch, lock, snapshots>>

\* A thread calls operator_control.assert_active(); the outcome field notes
\* whether a halt call returned before, with no clear after its set, and
\* the action field whether the latest halt call to return has returned
\* with no resume call in progress then or since.
ThreadCallsAssert(t) ==
    /\ pc[t] = "idle"
    /\ tlocal' = [tlocal EXCEPT ![t] =
                      [NoCall EXCEPT !.op = "assert_active",
                                     !.outcome = IF standing.returned
                                                 THEN "after halt" ELSE "",
                                     !.action = IF standing.quiet
                                                THEN "no resume since" ELSE ""]]
    /\ pc' = [pc EXCEPT ![t] = "poll"]
    /\ UNCHANGED <<govVars, stVars, lock, snapshots, standing>>

\* assert_active: if self._halt_event.is_set(): raise RuntimeError.
ThreadPoll(t) ==
    /\ pc[t] = "poll"
    /\ call' = (IF halted THEN Raised("assert_active") ELSE Returned("assert_active"))
    /\ pc' = [pc EXCEPT ![t] = "idle"]
    /\ tlocal' = [tlocal EXCEPT ![t] = NoCall]
    /\ UNCHANGED <<stVars, identity, entries, chain_hash, clock, entryHeap, ctxHeap,
                   listHeap, policies, halted, held, lastSwitch, lock, snapshots,
                   standing>>

\* Threads calling halt, resume and assert_active at the same time.
NextSwitch ==
    \/ \E t \in Threads : ThreadCallsHalt(t)
    \/ \E t \in Threads : ThreadCallsResume(t)
    \/ \E t \in Threads : ThreadCallsAssert(t)
    \/ \E t \in Threads : ThreadSet(t)
    \/ \E t \in Threads : ThreadClear(t)
    \/ \E t \in Threads : Acquire(t)
    \/ \E t \in Threads : ThreadBuild(t)
    \/ \E t \in Threads : ThreadHash(t)
    \/ \E t \in Threads : ThreadChain(t)
    \/ \E t \in Threads : ThreadAppend(t)
    \/ \E t \in Threads : Release(t)
    \/ \E t \in Threads : ThreadReturn(t)
    \/ \E t \in Threads : ThreadPoll(t)

SpecSwitch == Init /\ [][NextSwitch]_vars

\* C23 as stated: with halt and resume running beside assert_active, the
\* flag is always set or clear, and an assert_active call that starts after
\* a halt call has returned, no resume call having been in progress at that
\* return or at any time since, raises.
C23_FailsAfterReturnedHalt ==
    /\ [](halted \in BOOLEAN)
    /\ [][\A t \in Threads :
             (ThreadPoll(t) /\ tlocal[t].action = "no resume since" /\ standing.quiet)
                 => call'.raised]_vars

\* C23, amended: with halt and resume running beside assert_active, the
\* flag is always set or clear and is what the latest set or clear left; an
\* assert_active call that starts after a halt call has returned, no clear
\* having followed that halt's set up to the time it reads the flag, raises.
C23_NoTornFlag ==
    /\ [](halted \in BOOLEAN /\ (halted <=> lastSwitch = "halt"))
    /\ [][\A t \in Threads :
             (ThreadPoll(t) /\ tlocal[t].outcome = "after halt" /\ standing.returned)
                 => call'.raised]_vars

\* assert_active has raised after a halt call returned, while another
\* thread is inside resume and has not cleared the flag yet.
C23_Witness ==
    /\ call.op = "assert_active"
    /\ call.raised
    /\ standing.returned
    /\ \E u \in Threads : pc[u] = "clear"

\* --------------------------------------------------- halt and resume entries

\* The step appended one entry with this action, outcome and reason, and
\* left the entries before it, their dicts included, as they were.
AppendedOne(action, outcome, reason) ==
    /\ Len(entries') = Len(entries) + 1
    /\ SubSeq(entries', 1, Len(entries)) = entries
    /\ SubSeq(entryHeap', 1, Len(entryHeap)) = entryHeap
    /\ SubSeq(ctxHeap', 1, Len(ctxHeap)) = ctxHeap
    /\ entryHeap'[Appended].action = action
    /\ entryHeap'[Appended].outcome = outcome
    /\ ctxHeap'[entryHeap'[Appended].context] = [k \in {"reason"} |-> JStr(reason)]

\* C24: every halt call appends exactly one entry (operator_halt, HALTED)
\* and every resume call exactly one (operator_resume, RESUMED), whatever the
\* flag was; a halt of a halted system leaves the flag set and, the entry
\* apart, the identity, the policies, the lists and the stapler as they were.
C24_SwitchRecordsOnce ==
    [][\A r \in Reasons :
          /\ Halt(r) =>
                /\ AppendedOne("operator_halt", "HALTED", r)
                /\ halted'
                /\ halted => UNCHANGED <<halted, identity, policies, listHeap, held,
                                         extVars>>
          /\ Resume(r) =>
                /\ AppendedOne("operator_resume", "RESUMED", r)
                /\ ~halted']_vars

\* A halt of a system that was halted already has returned: the log ends
\* with two operator_halt entries.
C24_Witness ==
    /\ call.op = "halt"
    /\ halted
    /\ Len(entries) >= 2
    /\ LogActions[Len(entries)] = "operator_halt"
    /\ LogActions[Len(entries) - 1] = "operator_halt"

\* ------------------------------------------------------- the log's shape

\* C25: the entry at position i has seq i (from 0), entry 0 has prev_hash
\* "GENESIS", every later entry has the entry_hash of the one before it as
\* its prev_hash, and the running chain hash is the entry_hash of the last
\* entry ("GENESIS" while the log is empty).
C25_SeqAndLinks ==
    /\ \A i \in 1..Len(entries) : entryHeap[entries[i]].seq = i - 1
    /\ Len(entries) > 0 => entryHeap[entries[1]].prev_hash = GENESIS
    /\ \A i \in 2..Len(entries) :
           entryHeap[entries[i]].prev_hash = entryHeap[entries[i - 1]].entry_hash
    /\ chain_hash = IF entries = <<>> THEN GENESIS
                    ELSE entryHeap[entries[Len(entries)]].entry_hash

\* The log is full, with entries of a policy evaluation, of the kill-switch
\* and of a phase among them.
C25_Witness ==
    /\ Len(entries) = MaxEntries
    /\ HasAction("policy_evaluate:staple")
    /\ HasAction("operator_halt")
    /\ HasAction("unpack")

\* ------------------------------------------------------------ registration

\* The names of the registry, in evaluation order.
PolicyNames(pols) == [i \in 1..Len(pols) |-> pols[i].name]

\* register calls, and evaluate calls on contexts that differ in the author:
\* given, empty, None.
RegisterContexts ==
    [identity : {"self"}, author : {"Axiom", "", NONE}, input_path : {"in.docx"},
     output_path : {"in.docx"}]

NextRegister ==
    \/ \E n \in RegisterNames, fn \in CallerPolicies : Register(n, fn)
    \/ \E a \in EvalActions, ctx \in RegisterContexts :
           Len(entries) < MaxEvaluated /\ Evaluate(a, ctx)

SpecRegister == Init /\ [][NextRegister]_vars

\* C26: register(name, policy) calls no policy (it returns even when the
\* policy is one that raises) and appends no audit entry; under a name in
\* use it replaces that policy and keeps the number and the order of the
\* policies, under a new name it adds the policy last; evaluate then
\* consults, under each name, the policy registered last: a failure carries
\* the reason of the current policy of its name, once per name.
C26_RegisterReplaces ==
    [][/\ \A n \in RegisterNames, fn \in CallerPolicies :
             (call'.op = "register" /\ Register(n, fn)) =>
                /\ ~call'.raised
                /\ UNCHANGED <<entries, entryHeap, ctxHeap, listHeap, chain_hash>>
                /\ PolicyNames(policies') =
                       (IF PolicyIndex(policies, n) # 0 THEN PolicyNames(policies)
                        ELSE Append(PolicyNames(policies), n))
                /\ \A i \in 1..Len(policies') :
                       policies'[i].fn = (IF policies'[i].name = n THEN fn
                                          ELSE policies[i].fn)
       /\ \A a \in EvalActions, ctx \in RegisterContexts :
             (call'.op = "evaluate" /\ ~call'.raised /\ Evaluate(a, ctx)) =>
                /\ \A i \in 1..Len(LastFailures) :
                       /\ PolicyIndex(policies, LastFailures[i].policy) # 0
                       /\ LastFailures[i].reason =
                              ApplyPolicy(policies[PolicyIndex(policies,
                                                               LastFailures[i].policy)].fn,
                                          ctx).reason
                /\ \A i, j \in 1..Len(LastFailures) :
                       LastFailures[i].policy = LastFailures[j].policy => i = j]_vars

\* An evaluation has been denied by the caller's policy registered under the
\* built-in name no_empty_author, the registry still holding three policies,
\* or four with the caller's own name.
C26_Witness ==
    /\ call.op = "evaluate"
    /\ ~call.raised
    /\ Len(entries) = 1
    /\ Len(policies) \in {3, 4}
    /\ policies[2] = [name |-> "no_empty_author", fn |-> "deny_all"]
    /\ \E i \in 1..Len(listHeap[Len(listHeap)]) :
           listHeap[Len(listHeap)][i] =
               [policy |-> "no_empty_author", reason |-> policy_deny_all(<<>>).reason]

\* ------------------------------------------------ what inject_metadata edits

\* The parts inject_metadata may edit.
InjectTargets == {CORE, SETTINGS}

\* C27: inject_metadata returns, leaves every part of the workspace other
\* than docProps/core.xml and word/settings.xml with the bytes it had,
\* word/document.xml among them, creates no part, and leaves the files on
\* disk outside the workspace alone, also when a target part is absent.
C27_InjectEditsTargetsOnly ==
    [][\A a \in StaplerAuthors, sid \in InjectSessions :
          InjectMetadata(a, sid) =>
             /\ stret'.raised = ""
             /\ DOMAIN st'.files = DOMAIN st.files
             /\ \A n \in DOMAIN st.files \ InjectTargets :
                    PartBytes(st'.files[n]) = PartBytes(st.files[n])
             /\ st'.disk = st.disk
             /\ st'.exists = st.exists]_vars

\* inject_metadata has run on the workspace of a package without core.xml
\* and settings.xml: the two parts it had are there, and nothing else.
C27_Witness ==
    /\ stret.op = "inject_metadata"
    /\ stret.raised = ""
    /\ DOMAIN st.files = {CONTENT_TYPES, DOCUMENT}
    /\ PartBytes(st.files[DOCUMENT]) = PartBytes(OtherPart("document"))

\* --------------------------------------------------- what unpack leaves

\* C28: after an unpack call that returned, whatever the workspace held
\* before, from an earlier package or an earlier injection, work_dir exists
\* and holds exactly the entries of the package just unpacked, with the
\* bytes they have in it.
C28_UnpackStartsClean ==
    [][\A path \in DOMAIN st.disk :
          (Unpack(path) /\ stret'.raised = "") =>
              /\ st'.exists
              /\ DOMAIN st'.files = DOMAIN Extracted(st.disk[path].members)
              /\ \A n \in DOMAIN st'.files :
                     PartBytes(st'.files[n])
                         = PartBytes(Extracted(st.disk[path].members)[n])
              /\ st'.source_hash = SHA256(FileBytes(st.disk[path]))
              /\ st'.disk = st.disk]_vars

\* unpack of the package without core.xml and settings.xml has returned on a
\* work_dir that held all four parts of an earlier package: the two are gone.
C28_Witness ==
    /\ stret.op = "unpack"
    /\ stret.raised = ""
    /\ history.left = PartNames
    /\ DOMAIN st.files = {CONTENT_TYPES, DOCUMENT}

\* ------------------------------------------------- pack without a workspace

\* C29: a pack call made while work_dir holds no package that a preceding
\* unpack call extracted (before any unpack, after a pack, after an unpack
\* that failed) raises and leaves the file at output_path as it was: not
\* created, not truncated.
C29_PackNeedsWorkspace ==
    [][\A out \in OutputPaths :
          (Pack(out) /\ history.origin = <<>>) =>
              /\ stret'.raised # ""
              /\ st'.disk[out] = st.disk[out]]_vars

\* ------------------------------------------------- a record call that fails

\* Threads calling record, with contexts json.dumps can and cannot
\* serialise, a statement at a time.
NextFailing ==
    \/ \E t \in Threads, a \in RecordActions, o \in RecordOutcomes :
           ThreadCallsRecord(t, a, o)
    \/ \E t \in Threads, a \in RecordActions, o \in RecordOutcomes :
           ThreadCallsRecordObject(t, a, o)
    \/ \E t \in Threads : Acquire(t)
    \/ \E t \in Threads : ThreadBuild(t)
    \/ \E t \in Threads : ThreadHash(t)
    \/ \E t \in Threads : ThreadChain(t)
    \/ \E t \in Threads : ThreadAppend(t)
    \/ \E t \in Threads : Release(t)

SpecFailing == Init /\ [][NextFailing]_vars

\* C30: a record call whose context json.dumps cannot serialise raises
\* before it writes: when it leaves the with block the log has the length
\* and the running chain hash the call read, and the lock is free; whenever
\* no call is in progress the lock is free, the seqs count from 0, the
\* chain hash is the last entry_hash and verify_chain() is true, so the
\* record calls after the failed one succeed.
C30_FailedRecordLeavesLog ==
    /\ [][\A t \in Threads :
             (Release(t) /\ tlocal[t].ctx = "object") =>
                 /\ Len(entries') = tlocal[t].entry.seq
                 /\ chain_hash' = tlocal[t].entry.prev_hash
                 /\ UNCHANGED <<entries, entryHeap>>
                 /\ lock' = 0]_vars
    /\ []((\A t \in Threads : pc[t] = "idle") =>
              /\ lock = 0
              /\ \A i \in 1..Len(entries) : entryHeap[entries[i]].seq = i - 1
              /\ chain_hash = (IF entries = <<>> THEN GENESIS
                               ELSE entryHeap[entries[Len(entries)]].entry_hash)
              /\ VerifyChain)

\* A record call has failed on its context, a record call made after it
\* has appended an entry beside an earlier one, and no call is in progress.
C30_Witness ==
    /\ \A t \in Threads : pc[t] = "idle"
    /\ Len(entries) >= 2
    /\ \E i \in 1..Len(ctxHeap) :
           /\ ctxHeap[i] = ObjectDict
           /\ \E j, k \in 1..Len(entries) :
                  /\ entryHeap[entries[j]].context < i
                  /\ entryHeap[entries[k]].context > i

\* ------------------------------------------- verify_chain beside record

\* A thread calls audit_log.verify_chain(): prev_hash = "GENESIS", and the
\* loop is at the first entry. The thread's entry field holds the loop's
\* position (seq) and its prev_hash.
ThreadCallsVerify(t) ==
    /\ pc[t] = "idle"
    /\ tlocal' = [tlocal EXCEPT ![t] = [NoCall EXCEPT !.op = "verify_chain",
                                                     !.entry.seq = 0,
                                                     !.entry.prev_hash = GENESIS]]
    /\ pc' = [pc EXCEPT ![t] = "verify"]
    /\ UNCHANGED <<govVars, stVars, lock, snapshots, standing>>

\* verify_chain, one turn of `for entry in self._entries`, without the
\* lock: the list as it is now gives the next entry or ends the loop.
ThreadVerifyStep(t) ==
    LET i == tlocal[t].entry.seq
        entry == entryHeap[entries[i + 1]]
        computed == EntryHash(entry, ctxHeap, listHeap)
        result(b) == /\ call' = [op |-> "verify_chain", raised |-> FALSE, allowed |-> b]
                     /\ pc' = [pc EXCEPT ![t] = "idle"]
                     /\ tlocal' = [tlocal EXCEPT ![t] = NoCall]
    IN /\ pc[t] = "verify"
       /\ IF i >= Len(entries) THEN result(TRUE)
          ELSE IF computed # entry.entry_hash THEN result(FALSE)
          ELSE IF entry.prev_hash # tlocal[t].entry.prev_hash THEN result(FALSE)
          ELSE /\ tlocal' = [tlocal EXCEPT ![t].entry.seq = i + 1,
                                           ![t].entry.prev_hash = entry.entry_hash]
               /\ UNCHANGED <<pc, call>>
       /\ UNCHANGED <<stVars, identity, entries, chain_hash, clock, entryHeap, ctxHeap,
                      listHeap, policies, halted, held, lastSwitch, lock, snapshots,
                      standing>>

\* Threads calling record and verify_chain at the same time.
NextVerifying ==
    \/ \E t \in Threads, a \in RecordActions, o \in RecordOutcomes :
           ThreadCallsRecord(t, a, o)
    \/ \E t \in Threads : ThreadCallsVerify(t)
    \/ \E t \in Threads : Acquire(t)
    \/ \E t \in Threads : ThreadBuild(t)
    \/ \E t \in Threads : ThreadHash(t)
    \/ \E t \in Threads : ThreadChain(t)
    \/ \E t \in Threads : ThreadAppend(t)
    \/ \E t \in Threads : Release(t)
    \/ \E t \in Threads : ThreadVerifyStep(t)

SpecVerifying == Init /\ [][NextVerifying]_vars

\* C31: a verify_chain call that runs beside record calls, on a log nobody
\* tampered with, returns true in every interleaving: each entry its loop
\* reaches has its entry_hash and follows the entry read before it.
C31_VerifyBesideRecord ==
    /\ [](call.op = "verify_chain" => call.allowed)
    /\ [][\A t \in Threads :
             (ThreadVerifyStep(t) /\ tlocal[t].entry.seq < Len(entries)) =>
                 /\ entryHeap[entries[tlocal[t].entry.seq + 1]].entry_hash # <<>>
                 /\ pc'[t] = "verify"]_vars

\* A verify_chain call has returned true, another is past the first entry,
\* and a record call has set the chain hash and not yet appended its entry.
C31_Witness ==
    /\ call.op = "verify_chain"
    /\ call.allowed
    /\ \E t, u \in Threads :
           /\ pc[t] = "verify"
           /\ tlocal[t].entry.seq >= 1
           /\ pc[u] = "append"

\* ------------------------------------------- the log and the kill-switch

\* The positions in the log of the operator_halt and operator_resume entries.
SwitchEntries ==
    {i \in 1..Len(entries) : LogActions[i] \in {"operator_halt", "operator_resume"}}

\* The action of the latest of them, "none" when there is none.
LatestSwitchEntry ==
    IF SwitchEntries = {} THEN "none"
    ELSE LogActions[CHOOSE i \in SwitchEntries : \A j \in SwitchEntries : j <= i]

\* C32: whenever no halt or resume call is in progress, the halt flag is set
\* exactly when the latest operator_halt or operator_resume entry of the log
\* is operator_halt, and clear when the log has no such entry; this also
\* when halt and resume were called at the same time from different threads.
C32_LogAgreesWithSwitch ==
    Switching = {} =>
        (halted = TRUE <=> LatestSwitchEntry = "operator_halt")

\* ------------------------------------------- the workspace and the marker

\* unpack and inject_metadata on one work_dir, of packages stapled before
\* and not, with session ids given and taken from the clock, while time
\* passes.
NextWorkspace ==
    \/ \E path \in {"good.docx", "bare.docx", "junk.docx", "stapled.docx"} :
           Unpack(path)
    \/ \E a \in StaplerAuthors, sid \in InjectSessions :
           history.injects < MaxInjects /\ InjectMetadata(a, sid)
    \/ Tick

SpecWorkspace == Init /\ [][NextWorkspace]_vars

====
